---- MODULE Spec2Model ----
(***************************************************************************)
(* State-machine model of the Shindo WebSocket presence gateway            *)
(* (src/src/modules/gateway/gateway.ts) together with the D1 presence      *)
(* client it calls (src/unnamed/part_002).                                 *)
(*                                                                         *)
(* JavaScript runs every handler to its next `await` without interruption, *)
(* so one action of the model is one such run: from an event (or from the  *)
(* completion of an awaited presence-store call) to the next await or to   *)
(* the end of the handler.  A presence-store call is three steps: the      *)
(* caller issues it and suspends, the store executes it (or fails), and    *)
(* the caller resumes.                                                     *)
(*                                                                         *)
(* Times are in units of 250 ms.                                           *)
(***************************************************************************)
EXTENDS Integers, Sequences, FiniteSets, TLC

\* ------------------------------------------------------------------ bounds
MaxFrames == 2      \* inbound frames dispatched in one run, all sockets together
MaxFanoutFrames == 3  \* inbound frames in a run without timers
MaxRequests == 4    \* HTTP requests answered in a run of the rate limiter alone
MaxAdminRequests == 3  \* HTTP requests answered in a run with connected clients
MaxUsersRequests == 1  \* requests for the list of users in a run
MaxInstances == 3   \* gateway instances that persist their start time
MaxInflight == 2    \* message handlers suspended on a store call at one time
MaxTime == 42       \* the clock stops advancing here
MaxHbTicks == 2     \* heartbeat timer firings in one run
MaxVerifyRuns == 1  \* verification timer firings in one run
\* The configuration of the run: config.rateLimit, config.hbInterval and
\* config.offlineAfter.
RateLimitWindow == 20  \* RATE_LIMIT_WINDOW_MS set to 5 000 ms
RateLimitMax == 2   \* RATE_LIMIT_MAX
HbInterval == 20    \* WS_HEARTBEAT_INTERVAL set to 5 000 ms
OfflineAfter == 40  \* OFFLINE_AFTER_MS set to 10 000 ms

\* --------------------------------------------------------- program constants
HbClampMin == 20          \* 5_000 in appHeartbeat
HbClampMax == 40          \* 10_000 in appHeartbeat
KeepAliveSlack == 1       \* 250 in appHeartbeat
CodeSocketNotOpen == 4001
CodeInactivity == 4400
CodeKeepaliveFailed == 4401
CodeVerification == 4403

\* ------------------------------------------------------------ value domains
Sockets == 1..2
Uuids == {"u1", "u2"}
Names == {"Alice", "Bob"}
ALLOWED_ROLES == <<"STAFF", "DIAMOND", "GOLD", "MEMBER">>
DEFAULT_ROLE == "MEMBER"
ACCOUNT_TYPES == {"LOCAL", "MICROSOFT"}
TimeSteps == {20, 21}

Range(f) == {f[i] : i \in DOMAIN f}
Max(a, b) == IF a >= b THEN a ELSE b
Min(a, b) == IF a <= b THEN a ELSE b

\* String(value).trim().toUpperCase() over the role spellings clients send.
UpperTrim(v) ==
    CASE v = "gold" -> "GOLD"
      [] v = " member " -> "MEMBER"
      [] v = "staff" -> "STAFF"
      [] OTHER -> v

RECURSIVE Dedup(_, _)
Dedup(seq, seen) ==
    IF seq = <<>> THEN <<>>
    ELSE IF Head(seq) \in seen THEN Dedup(Tail(seq), seen)
         ELSE <<Head(seq)>> \o Dedup(Tail(seq), seen \cup {Head(seq)})

MapSeq(seq, Op(_)) == [i \in DOMAIN seq |-> Op(seq[i])]

\* A normalisation that keeps repeated roles.
normalizeRolesKeepRepeats(input) ==
    SelectSeq(MapSeq(input, UpperTrim), LAMBDA v : v \in Range(ALLOWED_ROLES))

\* normalizeRoles: map trim/upper, keep the allowed ones, Array.from(new Set(..)).
normalizeRoles(input) ==
    Dedup(SelectSeq(MapSeq(input, UpperTrim), LAMBDA v : v \in Range(ALLOWED_ROLES)), {})

\* normalizeAccountType: an account type outside the enum becomes LOCAL.
normalizeAccountType(input) == IF input \in ACCOUNT_TYPES THEN input ELSE "LOCAL"

\* roleSchema / z.array(roleSchema): every element must be an allowed role after
\* trim and upper-casing; the parsed value is the transformed array.
RolesSchemaOk(raw, lo, hi) ==
    /\ Len(raw) >= lo /\ Len(raw) <= hi
    /\ \A i \in DOMAIN raw : UpperTrim(raw[i]) \in Range(ALLOWED_ROLES)

\* A parser that lets every JSON object through, whatever its fields.
SchemaOkAnyObject(f) == f.type \in {"auth", "ping", "roles.update", "warp.status"}

\* clientMessageSchema.parse(JSON.parse(data)): TRUE when the frame is accepted.
SchemaOk(f) ==
    CASE f.type = "auth" -> /\ f.uuid # "" /\ f.name # ""
                            /\ f.accountType \in ACCOUNT_TYPES
                            /\ RolesSchemaOk(f.roles, 0, 8)
      [] f.type = "ping" -> TRUE
      [] f.type = "roles.update" -> RolesSchemaOk(f.roles, 1, 8)
      [] f.type = "warp.status" -> TRUE
      [] OTHER -> FALSE

Parsed(f) == [f EXCEPT !.roles = MapSeq(f.roles, UpperTrim)]

\* The frames a client sends in the model.
Frame(type, uuid, name, roles) ==
    [type |-> type, uuid |-> uuid, name |-> name, accountType |-> "LOCAL", roles |-> roles]
AuthFrames ==
    {Frame("auth", "u1", "Alice", <<>>),
     Frame("auth", "u1", "Bob", <<"gold", "GOLD">>),
     Frame("auth", "u2", "Bob", <<"STAFF">>)}
PingFrame == Frame("ping", "", "", <<>>)
RolesUpdateFrame == Frame("roles.update", "", "", <<"gold", " member ", "GOLD">>)
WarpStatusFrame == Frame("warp.status", "", "", <<>>)
InvalidFrames ==
    {Frame("roles.update", "", "", <<"vip">>), Frame("garbage", "", "", <<>>)}
ClientFrames == AuthFrames \cup {PingFrame, RolesUpdateFrame, WarpStatusFrame} \cup InvalidFrames
AuthSpecFrames == AuthFrames \cup {PingFrame, RolesUpdateFrame, Frame("roles.update", "", "", <<"vip">>)}

\* The HTTP side: client addresses (meta.clientIp, `unknown` when null), the
\* x-admin-key header (`none` when absent), method and path, and the body of a
\* broadcast request.
AdminKey == "changeme-admin-key"
Addrs == {"10.0.0.1", "unknown"}
HeaderKeys == {"none", "changeme", AdminKey}
AdminRoutes == {"GET /v1/connected-users", "POST /v1/broadcast"}

\* Request bodies of POST /v1/broadcast: text that is not JSON, or a JSON object
\* with or without a string `type` and with a `payload` object (a function from
\* keys to values; the empty function when the body has none).
NoPayload == [k \in {} |-> ""]
Body(json, typed, type, payload) ==
    [json |-> json, typed |-> typed, type |-> type, payload |-> payload]
NotJsonBody == Body(FALSE, FALSE, "", NoPayload)
EmptyObjectBody == Body(TRUE, FALSE, "", NoPayload)
BannerBody == Body(TRUE, TRUE, "banner", [k \in {"text"} |-> "hi"])
Bodies ==
    {NotJsonBody, EmptyObjectBody, BannerBody,
     Body(TRUE, TRUE, "  ", NoPayload),
     Body(TRUE, TRUE, "banner", [k \in {"type", "uuid"} |-> IF k = "type" THEN "user.leave" ELSE "u1"])}
\* type.trim() is the empty string
Blank(type) == type \in {"", "  "}

\* -------------------------------------------------------------------- state
VARIABLES
    now,          \* Date.now()
    users,        \* PresenceCoordinator: the Map of presence records, by uuid
    warpKvBound,  \* whether the identifier warpKv resolves in handleWebSocket
    ready,        \* socket.readyState: "NONE" before the upgrade, "OPEN", "CLOSED"
    sendBroken,   \* socket.send throws although readyState is OPEN
    closeQueued,  \* the socket's close event is waiting to be dispatched
    closeCode,    \* code the server passed to socket.close, 0 if none
    connections,  \* ConnectionStore: socket -> ConnectionState (id 0: no entry)
    order,        \* insertion order of the Map's keys
    cursor,       \* entries already passed by the live iterators of the two loops
    rows,         \* the presence table: uuid -> row
    tasks,        \* message handlers suspended on an await
    closers,      \* close listeners suspended inside cleanupConnection
    hb,           \* appHeartbeat: ticking guard and the tick in progress
    vf,           \* startVerificationLoop: running guard and the run in progress
    calls,        \* presence-store (and KV) calls in flight, per caller
    outbox,       \* frames delivered to each socket, in order
    created,      \* history: per entry id, the identity it was inserted with
    joins,        \* history: per entry id, the user.join payloads broadcast for it
    leaves,       \* history: per entry id, the user.leave broadcasts made for it
    frames,       \* inbound frames dispatched so far
    rateLimitState, \* rate limiter buckets: client address -> {count, resetAt}
    http,         \* the admin request suspended on a presence call
    responses,    \* history: the HTTP responses returned so far, in order
    startKv,      \* APP_KV: the value under the key health:started_at
    persist       \* persistWebsocketStartTime: the call of each gateway instance

vars == <<now, warpKvBound, users, ready, sendBroken, closeQueued, closeCode, connections,
          order, cursor, rows, tasks, closers, hb, vf, calls, outbox, created,
          joins, leaves, frames, rateLimitState, http, responses, startKv, persist>>

gatewayVars == <<ready, sendBroken, closeQueued, closeCode, connections, order, cursor,
                 rows, tasks, closers, hb, vf, calls, outbox, created, joins, leaves,
                 frames, rateLimitState, http, responses>>

EntryIds == 1..(IF MaxFrames > MaxFanoutFrames THEN MaxFrames ELSE MaxFanoutFrames)
TaskIds == 1..MaxInflight
MsgProc(i) == <<"msg", i>>
CloseProc(s) == <<"close", s>>
HbProc == <<"hb", 0>>
VfProc == <<"vf", 0>>
HttpProc == <<"http", 0>>
ProcIds == {MsgProc(i) : i \in TaskIds} \cup {CloseProc(s) : s \in Sockets}
               \cup {HbProc, VfProc, HttpProc}

NoState == [id |-> 0, uuid |-> "", name |-> "", accountType |-> "", roles |-> <<>>,
            connectedAt |-> 0, lastSeen |-> 0, lastKeepAliveAt |-> 0, isAlive |-> FALSE]
NoRow == [exists |-> FALSE, online |-> FALSE, name |-> "", accountType |-> "",
          roles |-> <<>>]
NoCall == [op |-> "none", st |-> "idle", uuid |-> "", name |-> "", accountType |-> "",
           roles |-> <<>>, res |-> <<>>, at |-> {}]
IdleTask == [pc |-> "idle", socket |-> 0, uuid |-> "", name |-> "", accountType |-> "",
             roles |-> <<>>, prevUuid |-> "", prevId |-> 0, id |-> 0]
IdleCleanup == [pc |-> "idle", socket |-> 0, uuid |-> "", id |-> 0, code |-> 0, reason |-> ""]
NoIdentity == [socket |-> 0, uuid |-> "", name |-> "", accountType |-> ""]

\* ------------------------------------------------- the in-process memory
\* The synchronous helpers below are functions of the in-process memory: they
\* take it as one record and return it changed.
Mem == [conns |-> connections, order |-> order, cursor |-> cursor, ready |-> ready,
        closeQueued |-> closeQueued, closeCode |-> closeCode, outbox |-> outbox,
        created |-> created, joins |-> joins, leaves |-> leaves]

Commit(m) ==
    /\ connections' = m.conns
    /\ order' = m.order
    /\ cursor' = m.cursor
    /\ ready' = m.ready
    /\ closeQueued' = m.closeQueued
    /\ closeCode' = m.closeCode
    /\ outbox' = m.outbox
    /\ created' = m.created
    /\ joins' = m.joins
    /\ leaves' = m.leaves

IndexOf(seq, x) == CHOOSE i \in DOMAIN seq : seq[i] = x
Without(seq, x) == SelectSeq(seq, LAMBDA y : y # x)

\* connections.set(socket, state): a new key goes to the end of the Map's order,
\* an existing key keeps its place.
MapSet(m, s, state) ==
    [m EXCEPT !.conns[s] = state,
              !.order = IF s \in Range(m.order) THEN @ ELSE Append(@, s)]

\* connections.delete(socket): a live iterator that has passed the key moves back
\* with the entries behind it; one that has not will never see the key.
MapDelete(m, s) ==
    IF s \notin Range(m.order) THEN m
    ELSE LET i == IndexOf(m.order, s) IN
         [m EXCEPT !.conns[s] = NoState,
                   !.order = Without(@, s),
                   !.cursor = [k \in DOMAIN @ |-> IF i <= @[k] THEN @[k] - 1 ELSE @[k]]]

\* socket.send on an OPEN socket: delivered unless the send throws.
Deliver(m, s, payload) ==
    IF sendBroken[s] THEN m ELSE [m EXCEPT !.outbox[s] = Append(@, payload)]

safeSend(m, s, payload) ==
    IF m.ready[s] = "OPEN" THEN Deliver(m, s, payload) ELSE m

RECURSIVE SendEach(_, _, _)
SendEach(m, keys, payload) ==
    IF keys = <<>> THEN m
    ELSE SendEach(safeSend(m, Head(keys), payload), Tail(keys), payload)

\* A fan-out that gives up at the first socket whose send throws.
RECURSIVE SendUntilThrow(_, _, _)
SendUntilThrow(m, keys, payload) ==
    IF keys = <<>> THEN m
    ELSE IF m.ready[Head(keys)] = "OPEN" /\ sendBroken[Head(keys)] THEN m
    ELSE SendUntilThrow(safeSend(m, Head(keys), payload), Tail(keys), payload)
broadcastToAllUntilThrow(m, payload) == SendUntilThrow(m, m.order, payload)

broadcastToAll(m, payload) == SendEach(m, m.order, payload)

UserLeave(uuid) == [type |-> "user.leave", uuid |-> uuid]
UserJoin(uuid, name, accountType) ==
    [type |-> "user.join", uuid |-> uuid, name |-> name, accountType |-> accountType]
AuthOk(uuid, roles) == [type |-> "auth.ok", uuid |-> uuid, roles |-> roles]
ErrorFrame == [type |-> "error", code |-> "INVALID_PAYLOAD"]

\* socket.close(code, reason) by the server: an OPEN socket closes with that code
\* and its close event is queued; on a socket that is not OPEN nothing changes.
SocketClose(m, s, code) ==
    IF m.ready[s] = "OPEN"
    THEN [m EXCEPT !.ready[s] = "CLOSED", !.closeCode[s] = code, !.closeQueued[s] = TRUE]
    ELSE m

\* cleanupConnection up to its await: called with the state the caller just read.
cleanupDelete(m, s) == MapDelete(m, s)

\* A cleanup that closes the socket without telling anyone.
cleanupFinishSilent(m, c) ==
    IF c.code # 0 THEN SocketClose(m, c.socket, c.code) ELSE m

\* cleanupConnection after `await presence.markOffline(..)`: the broadcast and,
\* for an eviction, the close.
cleanupFinish(m, c) ==
    LET b == broadcastToAll(m, UserLeave(c.uuid))
        l == [b EXCEPT !.leaves[c.id] = @ + 1]
    IN IF c.code # 0 THEN SocketClose(l, c.socket, c.code) ELSE l

\* ---------------------------------------------------- the presence store
\* createPresenceClient (D1): what each statement does to the row of its uuid.
markOnlineRow(row, rec) ==
    [exists |-> TRUE, online |-> TRUE, name |-> rec.name,
     accountType |-> rec.accountType, roles |-> rec.roles]

markOfflineRow(row) ==
    IF row.exists THEN [row EXCEPT !.online = FALSE]
    ELSE [exists |-> TRUE, online |-> FALSE, name |-> "Unknown",
          accountType |-> "LOCAL", roles |-> <<DEFAULT_ROLE>>]

updateLastSeenRow(row) == IF row.exists THEN [row EXCEPT !.online = TRUE] ELSE row

updateRolesRow(row, roles) == IF row.exists THEN [row EXCEPT !.roles = roles] ELSE row

\* fetchRoles: undefined (here <<>>) when there is no row or its roles are empty.
fetchRolesResult(row) == IF row.exists THEN row.roles ELSE <<>>

\* fetchOnlineUsers: the rows WHERE online = 1, keyed by uuid as byUuid keys them.
fetchOnlineUsersResult(table) ==
    [u \in Uuids |-> IF table[u].exists /\ table[u].online THEN table[u] ELSE NoRow]

StartCall(op, uuid, rec) ==
    [op |-> op, st |-> "pending", uuid |-> uuid, name |-> rec.name,
     accountType |-> rec.accountType, roles |-> rec.roles, res |-> <<>>, at |-> {}]
NoRec == [name |-> "", accountType |-> "", roles |-> <<>>]

\* What a call that succeeds does to the table.
StoreEffect(table, c) ==
    CASE c.op = "markOnline" -> [table EXCEPT ![c.uuid] = markOnlineRow(@, c)]
      [] c.op = "markOffline" -> [table EXCEPT ![c.uuid] = markOfflineRow(@)]
      [] c.op = "updateLastSeen" -> [table EXCEPT ![c.uuid] = updateLastSeenRow(@)]
      [] c.op = "updateRoles" -> [table EXCEPT ![c.uuid] = updateRolesRow(@, c.roles)]
      [] OTHER -> table

\* What a call that succeeds answers.
StoreResult(table, c) ==
    CASE c.op = "fetchRoles" -> fetchRolesResult(table[c.uuid])
      [] c.op = "fetchOnlineUsers" -> fetchOnlineUsersResult(table)
      [] OTHER -> <<>>

\* History: the ids of the registry's entries at the moment the store runs a
\* fetchOnlineUsers call.
PresentAt(c) ==
    IF c.op = "fetchOnlineUsers"
    THEN {connections[s].id : s \in Sockets} \ {0}
    ELSE {}

\* The store runs one pending call: it fails (nothing changes), or it takes effect
\* and, for a query, fixes the answer the caller will see.
StoreExec(p) ==
    /\ calls[p].st = "pending"
    /\ \/ /\ calls' = [calls EXCEPT ![p].st = "fail", ![p].at = PresentAt(calls[p])]
          /\ rows' = rows
       \/ /\ rows' = StoreEffect(rows, calls[p])
          /\ calls' = [calls EXCEPT ![p].st = "ok", ![p].res = StoreResult(rows, calls[p]),
                                    ![p].at = PresentAt(calls[p])]
    /\ UNCHANGED <<now, warpKvBound, users, startKv, persist, rateLimitState, http, responses, ready, sendBroken, closeQueued, closeCode,
                   connections, order, cursor, tasks, closers, hb, vf, outbox,
                   created, joins, leaves, frames>>

Returned(p) == calls[p].st \in {"ok", "fail"}

\* ------------------------------------------------------------ environment
\* isSecureRequest: an x-forwarded-proto header other than https is refused.
isSecureRequest(proto) == proto = "" \/ proto = "https"

\* handleWebSocket: a secure upgrade request is accepted and the listeners attached.
\* A refused request (400) leaves the state as it is.  Socket handles are
\* interchangeable, so they are handed out in order.
Upgrade(s) ==
    /\ ready[s] = "NONE"
    /\ \A r \in Sockets : r < s => ready[r] # "NONE"
    /\ \E proto \in {"", "https", "http"} : isSecureRequest(proto)
    /\ ready' = [ready EXCEPT ![s] = "OPEN"]
    /\ UNCHANGED <<now, warpKvBound, users, startKv, persist, rateLimitState, http, responses, sendBroken, closeQueued, closeCode, connections,
                   order, cursor, rows, tasks, closers, hb, vf, calls, outbox,
                   created, joins, leaves, frames>>

\* The peer closes (or the connection drops): readyState leaves OPEN at once, the
\* close event is dispatched later.
ClientClose(s) ==
    /\ ready[s] = "OPEN"
    /\ ready' = [ready EXCEPT ![s] = "CLOSED"]
    /\ closeQueued' = [closeQueued EXCEPT ![s] = TRUE]
    /\ UNCHANGED <<now, warpKvBound, users, startKv, persist, rateLimitState, http, responses, sendBroken, closeCode, connections, order,
                   cursor, rows, tasks, closers, hb, vf, calls, outbox, created,
                   joins, leaves, frames>>

\* The transport under an OPEN socket breaks: from here on socket.send throws.
BreakSocket(s) ==
    /\ ready[s] = "OPEN"
    /\ ~sendBroken[s]
    /\ sendBroken' = [sendBroken EXCEPT ![s] = TRUE]
    /\ UNCHANGED <<now, warpKvBound, users, startKv, persist, rateLimitState, http, responses, ready, closeQueued, closeCode, connections,
                   order, cursor, rows, tasks, closers, hb, vf, calls, outbox,
                   created, joins, leaves, frames>>

AdvanceTime(d) ==
    /\ now + d <= MaxTime
    /\ now' = now + d
    /\ UNCHANGED <<warpKvBound, users, startKv, persist, rateLimitState, http, responses, ready, sendBroken, closeQueued, closeCode, connections,
                   order, cursor, rows, tasks, closers, hb, vf, calls, outbox,
                   created, joins, leaves, frames>>

\* ------------------------------------------------------------ HTTP surface
NoBucket == [count |-> 0, resetAt |-> 0]
IdleHttp == [pc |-> "idle", addr |-> "", route |-> "", key |-> "", body |-> NotJsonBody]
\* The body of an answer is kept for /v1/connected-users only.
NoListing == [users |-> <<>>, connections |-> -1]
Response(addr, route, key, status) ==
    [addr |-> addr, at |-> now, route |-> route, key |-> key, status |-> status,
     body |-> NoListing]

\* A check that accepts any x-admin-key header that is present.
isAuthorizedAnyKey(headerKey) == headerKey # "none"

\* isAuthorized: the header is present and equals config.adminKey.
isAuthorized(headerKey) == headerKey # "none" /\ headerKey = AdminKey

\* A limiter that rejects only once the count has passed the maximum.
isRateLimitedLate(current) ==
    IF current.count = 0 \/ current.resetAt < now
    THEN [limited |-> FALSE, bucket |-> [count |-> 1, resetAt |-> now + RateLimitWindow]]
    ELSE IF current.count > RateLimitMax
         THEN [limited |-> TRUE, bucket |-> current]
         ELSE [limited |-> FALSE, bucket |-> [current EXCEPT !.count = @ + 1]]

\* A limiter that goes on counting the requests it rejects.
isRateLimitedCounting(current) ==
    IF current.count = 0 \/ current.resetAt < now
    THEN [limited |-> FALSE, bucket |-> [count |-> 1, resetAt |-> now + RateLimitWindow]]
    ELSE [limited |-> current.count >= RateLimitMax,
          bucket |-> [current EXCEPT !.count = @ + 1]]

\* isRateLimited: the verdict and the bucket it leaves for the address; a bucket
\* with count 0 stands for an address the Map does not hold.
isRateLimited(current) ==
    IF current.count = 0 \/ current.resetAt < now
    THEN [limited |-> FALSE, bucket |-> [count |-> 1, resetAt |-> now + RateLimitWindow]]
    ELSE IF current.count >= RateLimitMax
         THEN [limited |-> TRUE, bucket |-> current]
         ELSE [limited |-> FALSE, bucket |-> [current EXCEPT !.count = @ + 1]]

\* The routes of handleRequest behind the limiter, up to the first await or the
\* response.
dispatch(addr, route, key, body) ==
    LET authorized == isAuthorized(key)
        reply(status) ==
            /\ responses' = Append(responses, Response(addr, route, key, status))
            /\ UNCHANGED <<calls, http>>
        await(pc, op) ==
            /\ http.pc = "idle"
            /\ http' = [pc |-> pc, addr |-> addr, route |-> route, key |-> key, body |-> body]
            /\ calls' = IF op = "" THEN calls
                        ELSE [calls EXCEPT ![HttpProc] = StartCall(op, "", NoRec)]
            /\ UNCHANGED responses
    IN CASE route = "GET /v1/health" ->
              await("health.count", "countOnlineUsers") /\ Commit(Mem)
         [] route = "GET /v1/connected-users" ->
              /\ IF ~authorized THEN reply(401) ELSE await("users.fetch", "fetchOnlineUsers")
              /\ Commit(Mem)
         [] route = "POST /v1/broadcast" ->
              /\ IF ~authorized THEN reply(401) ELSE await("broadcast.body", "")
              /\ Commit(Mem)
         [] OTHER -> reply(404) /\ Commit(Mem)

\* handleRequest for a request that is not a WebSocket upgrade: the preflight
\* answer, the limiter gate, then the route.
onRequest(addr, route, key, body) ==
    LET r == isRateLimited(rateLimitState[addr]) IN
    /\ IF route = "OPTIONS"
       THEN /\ responses' = Append(responses, Response(addr, route, key, 204))
            /\ Commit(Mem)
            /\ UNCHANGED <<rateLimitState, calls, http>>
       ELSE /\ rateLimitState' = [rateLimitState EXCEPT ![addr] = r.bucket]
            /\ IF r.limited
               THEN /\ responses' = Append(responses, Response(addr, route, key, 429))
                    /\ Commit(Mem)
                    /\ UNCHANGED <<calls, http>>
               ELSE dispatch(addr, route, key, body)
    /\ UNCHANGED <<now, warpKvBound, users, startKv, persist, sendBroken, rows, tasks, closers, hb, vf, frames>>

\* A body without a string type that has a character other than white space.
MissingTypeBlankAllowed(body) == ~body.typed \/ body.type = ""

\* Line 153: `typeof type !== "string" || !type.trim()`.
MissingType(body) == ~body.typed \/ Blank(body.type)

\* The object { type, ...(payload ?? {}) }: a key of the payload replaces the
\* key of the same name written before the spread.
Spread(type, payload) ==
    [k \in {"type"} \cup DOMAIN payload |-> IF k \in DOMAIN payload THEN payload[k] ELSE type]

\* /v1/broadcast after `await req.json()`: 400 for a body that does not parse or
\* has no type, otherwise the frame goes to the registry's sockets.
HttpAfterBody ==
    /\ http.pc = "broadcast.body"
    /\ http' = IdleHttp
    /\ IF ~http.body.json \/ MissingType(http.body)
       THEN /\ responses' = Append(responses, Response(http.addr, http.route, http.key, 400))
            /\ Commit(Mem)
       ELSE /\ responses' = Append(responses, Response(http.addr, http.route, http.key, 200))
            /\ Commit(broadcastToAll(Mem, Spread(http.body.type, http.body.payload)))
    /\ UNCHANGED <<now, warpKvBound, users, startKv, persist, rateLimitState, sendBroken, rows, tasks,
                   closers, hb, vf, frames, calls>>

Answered == Len(responses) + (IF http.pc = "idle" THEN 0 ELSE 1)

\* One user of the list built from the store's rows; the row's last_seen and
\* last_join, which the table here does not keep, are left out.
StoreUser(u, row) ==
    [uuid |-> u, name |-> row.name, accountType |-> row.accountType, roles |-> row.roles]

\* One user of the list built from the registry.
RegistryUser(state) ==
    [uuid |-> state.uuid, name |-> state.name, accountType |-> state.accountType,
     lastSeen |-> state.lastSeen, connectedAt |-> state.connectedAt,
     roles |-> state.roles]

\* The lists fetchOnlineUsers can answer with for one result: the online rows
\* ORDER BY last_seen DESC, an order the table here does not fix.
usersFromDb(res) ==
    LET online == {u \in Uuids : res[u].exists}
    IN {[k \in DOMAIN q |-> StoreUser(q[k], res[q[k]])] :
           q \in {q \in [1..Cardinality(online) -> online] : Range(q) = online}}

\* A projection in which a later entry of a uuid always replaces an earlier one.
RECURSIVE dedupedLatest(_, _, _)
dedupedLatest(conns, ord, acc) ==
    IF ord = <<>> THEN acc
    ELSE LET state == conns[Head(ord)]
             same == {k \in DOMAIN acc : acc[k].uuid = state.uuid}
         IN dedupedLatest(conns, Tail(ord),
               IF same = {} THEN Append(acc, state)
               ELSE [k \in DOMAIN acc |-> IF k \in same THEN state ELSE acc[k]])

\* Lines 119-125: the Map `deduped` after the loop over connections.values(),
\* as the sequence of its values; a uuid keeps the place of its first entry and
\* the state with the greater lastSeen, the earlier one when they are equal.
RECURSIVE deduped(_, _, _)
deduped(conns, ord, acc) ==
    IF ord = <<>> THEN acc
    ELSE LET state == conns[Head(ord)]
             same == {k \in DOMAIN acc : acc[k].uuid = state.uuid}
         IN deduped(conns, Tail(ord),
               IF same = {} THEN Append(acc, state)
               ELSE [k \in DOMAIN acc |->
                        IF k \in same /\ acc[k].lastSeen < state.lastSeen
                        THEN state ELSE acc[k]])

\* Lines 127-137: the body of the fallback answer.
registryListing ==
    LET values == deduped(connections, order, <<>>)
    IN [users |-> [k \in DOMAIN values |-> RegistryUser(values[k])],
        connections |-> Len(order)]

\* /v1/health after `await presence.countOnlineUsers()`, and /v1/connected-users
\* after `await presence.fetchOnlineUsers(500)`: the list comes from the store
\* or, when the call failed, from the registry; either way the answer is 200.
HttpAfterStore ==
    /\ http.pc \in {"health.count", "users.fetch"}
    /\ Returned(HttpProc)
    /\ \E body \in IF http.pc = "health.count" THEN {NoListing}
                    ELSE IF calls[HttpProc].st = "ok"
                         THEN {[users |-> list, connections |-> Len(list)] :
                                  list \in usersFromDb(calls[HttpProc].res)}
                         ELSE {registryListing} :
          responses' = Append(responses,
              [Response(http.addr, http.route, http.key, 200) EXCEPT !.body = body])
    /\ http' = IdleHttp
    /\ calls' = [calls EXCEPT ![HttpProc] = NoCall]
    /\ Commit(Mem)
    /\ UNCHANGED <<now, warpKvBound, users, startKv, persist, rateLimitState, sendBroken, rows, tasks, closers,
                   hb, vf, frames>>

\* ------------------------------------------------- presence coordinator
\* A record of the coordinator's Map; NoUser stands for a uuid it does not hold.
NoUser == [exists |-> FALSE, name |-> "", accountType |-> "", roles |-> <<>>,
           online |-> FALSE]

\* The JSON bodies posted to /event: a type, and a payload whose uuid may be
\* missing (""), whose name may be missing ("") and whose roles may hold
\* nothing the gateway allows.
Event(type, uuid, name, roles) ==
    [type |-> type, uuid |-> uuid, name |-> name, accountType |-> "LOCAL", roles |-> roles]
EventTypes == {"online", "offline", "seen", "roles", "purge"}
EventRoles == {<<>>, <<"vip">>, <<"gold", "GOLD">>, <<"STAFF", "vip">>}
Events ==
    {Event(type, uuid, name, roles) :
        type \in EventTypes, uuid \in Uuids \cup {""}, name \in {"", "Alice"},
        roles \in EventRoles}

\* parseAction: null (here a record of type "null") for an unknown type or a
\* payload without uuid; the online record gets its roles normalised, MEMBER
\* when none is left, and the name Unknown when it has none.
parseAction(data) ==
    IF data.type \notin {"online", "offline", "seen", "roles"} \/ data.uuid = ""
    THEN [type |-> "null"]
    ELSE CASE data.type = "online" ->
                LET roles == normalizeRoles(data.roles) IN
                [type |-> "online", uuid |-> data.uuid,
                 name |-> IF data.name = "" THEN "Unknown" ELSE data.name,
                 accountType |-> data.accountType,
                 roles |-> IF Len(roles) > 0 THEN roles ELSE <<DEFAULT_ROLE>>]
           [] data.type = "roles" ->
                [type |-> "roles", uuid |-> data.uuid, roles |-> normalizeRoles(data.roles)]
           [] OTHER -> [type |-> data.type, uuid |-> data.uuid]

\* handleOnline: { ...existing, ...record, online: true }.
handleOnline(map, record) ==
    [map EXCEPT ![record.uuid] =
        [exists |-> TRUE, name |-> record.name, accountType |-> record.accountType,
         roles |-> record.roles, online |-> TRUE]]

\* handleOffline: a stub for a uuid the Map does not hold, else online: false.
handleOffline(map, uuid) ==
    [map EXCEPT ![uuid] =
        IF ~@.exists
        THEN [exists |-> TRUE, name |-> "Unknown", accountType |-> "LOCAL",
              roles |-> <<DEFAULT_ROLE>>, online |-> FALSE]
        ELSE [@ EXCEPT !.online = FALSE]]

\* handleSeen: nothing for a uuid the Map does not hold, else online: true.
handleSeen(map, uuid) ==
    [map EXCEPT ![uuid] = IF ~@.exists THEN @ ELSE [@ EXCEPT !.online = TRUE]]

\* A roles handler that stores whatever list it is given.
handleRolesOverwrite(map, uuid, roles) ==
    [map EXCEPT ![uuid] = IF ~@.exists THEN @ ELSE [@ EXCEPT !.roles = roles]]

\* handleRoles: nothing for a uuid the Map does not hold; an empty list keeps
\* the roles the record has.
handleRoles(map, uuid, roles) ==
    [map EXCEPT ![uuid] =
        IF ~@.exists THEN @
        ELSE [@ EXCEPT !.roles = IF Len(roles) > 0 THEN roles ELSE @]]

\* fetch for POST /event: 400 without effect when parseAction answers null.
PostEvent(data) ==
    LET action == parseAction(data) IN
    /\ users' = CASE action.type = "online" -> handleOnline(users, action)
                   [] action.type = "offline" -> handleOffline(users, action.uuid)
                   [] action.type = "seen" -> handleSeen(users, action.uuid)
                   [] action.type = "roles" -> handleRoles(users, action.uuid, action.roles)
                   [] OTHER -> users
    /\ UNCHANGED <<now, warpKvBound, startKv, persist, gatewayVars>>

\* ------------------------------------------------------ health start time
\* The value under health:started_at: nothing, the JSON payload
\* {startedAtMs, commitHash}, or the plain number of the old format.
Instances == 1..MaxInstances
Commits == {"abc", "def"}
NoStart == [format |-> "none", startedAtMs |-> 0, commitHash |-> ""]
StartKvAtBoot ==
    {NoStart,
     [format |-> "legacy", startedAtMs |-> 90, commitHash |-> ""],
     [format |-> "json", startedAtMs |-> 90, commitHash |-> "abc"]}
IdlePersist == [pc |-> "idle", commitHash |-> "", startTimeMs |-> 0,
                existingStartedAt |-> 0, existingCommit |-> "", result |-> 0,
                threw |-> FALSE]   \* history: a key-value call of this call failed

\* Lines 42-47: reuse the stored value when it was written for the same commit,
\* write a new one otherwise.  0 stands for null.
persistDecision(p) ==
    IF p.existingStartedAt # 0 /\ p.existingCommit = p.commitHash THEN "touch" ELSE "put"

\* registerGateway of instance k calls syncStartTime(env, startTime, ..), which
\* runs persistWebsocketStartTime up to `await env.APP_KV.get(START_KEY, "json")`.
\* Instance k started at time 100 + k.
PersistCall(k, commit) ==
    /\ persist[k].pc = "idle"
    /\ persist' = [persist EXCEPT ![k] = [IdlePersist EXCEPT !.pc = "getJson",
                                                             !.commitHash = commit,
                                                             !.startTimeMs = 100 + k]]
    /\ UNCHANGED <<now, warpKvBound, users, startKv, gatewayVars>>

\* After the JSON read (lines 19-31): a failed read is ignored; a stored object
\* yields startedAtMs and commitHash; with no value yet the old format is read.
PersistAfterGetJson(k) ==
    /\ persist[k].pc = "getJson"
    /\ \E ok \in BOOLEAN :
          LET found == ok /\ startKv.format = "json"
              p == [persist[k] EXCEPT
                      !.threw = ~ok,
                      !.existingStartedAt = IF found THEN startKv.startedAtMs ELSE 0,
                      !.existingCommit = IF found THEN startKv.commitHash ELSE ""]
          IN persist' = [persist EXCEPT ![k] =
                            [p EXCEPT !.pc = IF found THEN persistDecision(p) ELSE "getLegacy"]]
    /\ UNCHANGED <<now, warpKvBound, users, startKv, gatewayVars>>

\* After the plain read (lines 33-39): a failure goes to the catch; the JSON
\* payload read as a number is NaN.
PersistAfterGetLegacy(k) ==
    /\ persist[k].pc = "getLegacy"
    /\ \E ok \in BOOLEAN :
          IF ~ok THEN persist' = [persist EXCEPT ![k].pc = "fallback", ![k].threw = TRUE]
          ELSE LET p == [persist[k] EXCEPT
                           !.existingStartedAt =
                               IF startKv.format = "legacy" THEN startKv.startedAtMs ELSE 0]
               IN persist' = [persist EXCEPT ![k] = [p EXCEPT !.pc = persistDecision(p)]]
    /\ UNCHANGED <<now, warpKvBound, users, startKv, gatewayVars>>

\* `await env.APP_KV.put(START_KEY, payload)` (line 48).
PersistPut(k) ==
    /\ persist[k].pc = "put"
    /\ \/ /\ startKv' = [format |-> "json", startedAtMs |-> persist[k].startTimeMs,
                          commitHash |-> persist[k].commitHash]
          /\ persist' = [persist EXCEPT ![k].pc = "touchNew"]
       \/ /\ persist' = [persist EXCEPT ![k].pc = "fallback", ![k].threw = TRUE]
          /\ UNCHANGED startKv
    /\ UNCHANGED <<now, warpKvBound, users, gatewayVars>>

\* The put of health:started_at:last_update (lines 43 and 49), then the return.
PersistTouch(k) ==
    /\ persist[k].pc \in {"touch", "touchNew"}
    /\ \/ persist' = [persist EXCEPT ![k].pc = "done",
                                     ![k].result = IF persist[k].pc = "touch"
                                                   THEN persist[k].existingStartedAt
                                                   ELSE persist[k].startTimeMs]
       \/ persist' = [persist EXCEPT ![k].pc = "fallback", ![k].threw = TRUE]
    /\ UNCHANGED <<now, warpKvBound, users, startKv, gatewayVars>>

\* The catch (lines 51-55): getPersistedStartTime reads the JSON value, then the
\* plain one; the call returns what it finds, its own start time otherwise.
PersistFallback(k) ==
    /\ persist[k].pc \in {"fallback", "fallbackLegacy"}
    /\ \E ok \in BOOLEAN :
          IF persist[k].pc = "fallback"
          THEN IF ~ok THEN persist' = [persist EXCEPT ![k].pc = "done",
                                                      ![k].result = persist[k].startTimeMs]
               ELSE IF startKv.format = "json"
                    THEN persist' = [persist EXCEPT ![k].pc = "done",
                                                    ![k].result = startKv.startedAtMs]
                    ELSE persist' = [persist EXCEPT ![k].pc = "fallbackLegacy"]
          ELSE persist' = [persist EXCEPT
                             ![k].pc = "done",
                             ![k].result = IF ok /\ startKv.format = "legacy"
                                           THEN startKv.startedAtMs
                                           ELSE persist[k].startTimeMs]
    /\ UNCHANGED <<now, warpKvBound, users, startKv, gatewayVars>>

\* ------------------------------------------------------- message handlers
FreeTasks == {i \in TaskIds : tasks[i].pc = "idle"}
NewTask == CHOOSE i \in FreeTasks : \A j \in FreeTasks : i <= j
NextEntryId == 1 + Cardinality({e \in EntryIds : created[e].socket # 0})

\* A stamp that rewinds last_seen to the time of the connection.
TouchAfterHandlerStale(m, s) ==
    IF m.conns[s].id # 0
    THEN [m EXCEPT !.conns[s].lastSeen = m.conns[s].connectedAt, !.conns[s].isAlive = TRUE]
    ELSE m

\* The message listener after `await handleClientMessage(..)`: the entry the socket
\* has now, if any, is stamped.
TouchAfterHandler(m, s) ==
    IF m.conns[s].id # 0
    THEN [m EXCEPT !.conns[s].lastSeen = now, !.conns[s].isAlive = TRUE]
    ELSE m

\* A resolution that lets the client's hint win over the canonical roles.
EffectiveRolesHintFirst(rolesFromDb, providedRoles) ==
    IF Len(providedRoles) > 0 THEN providedRoles
    ELSE IF Len(rolesFromDb) > 0 THEN rolesFromDb
    ELSE <<DEFAULT_ROLE>>

\* handleAuth lines 337-341.
EffectiveRoles(rolesFromDb, providedRoles) ==
    IF Len(rolesFromDb) > 0 THEN rolesFromDb
    ELSE IF Len(providedRoles) > 0 THEN providedRoles
    ELSE <<DEFAULT_ROLE>>

\* A reading of the canonical roles that trusts the stored list as it is.
RolesFromDbRaw(call) ==
    IF call.st = "ok" /\ Len(call.res) > 0 THEN call.res ELSE <<>>

\* handleAuth lines 327-335: the canonical roles, <<>> when the fetch failed or
\* found none.
RolesFromDb(call) ==
    IF call.st = "ok" /\ Len(call.res) > 0 THEN normalizeRoles(call.res) ELSE <<>>

\* A handleAuth that takes leave of the previous entry whatever its uuid.
handleAuthStartAlwaysLeave(s, msg, i) ==
    LET uuid == msg.uuid
        prev == connections[s]
        t == [IdleTask EXCEPT !.socket = s, !.uuid = uuid, !.name = msg.name,
                              !.accountType = normalizeAccountType(msg.accountType),
                              !.roles = normalizeRoles(msg.roles)]
    IN IF prev.id # 0 /\ prev.uuid # ""
       THEN /\ tasks' = [tasks EXCEPT ![i] = [t EXCEPT !.pc = "auth.markPrevOffline",
                                                       !.prevUuid = prev.uuid,
                                                       !.prevId = prev.id]]
            /\ calls' = [calls EXCEPT ![MsgProc(i)] = StartCall("markOffline", prev.uuid, NoRec)]
       ELSE /\ tasks' = [tasks EXCEPT ![i] = [t EXCEPT !.pc = "auth.fetchRoles"]]
            /\ calls' = [calls EXCEPT ![MsgProc(i)] = StartCall("fetchRoles", uuid, NoRec)]

\* handleAuth up to its first await.
handleAuthStart(s, msg, i) ==
    LET uuid == msg.uuid
        prev == connections[s]
        t == [IdleTask EXCEPT !.socket = s, !.uuid = uuid, !.name = msg.name,
                              !.accountType = normalizeAccountType(msg.accountType),
                              !.roles = normalizeRoles(msg.roles)]
    IN IF prev.id # 0 /\ prev.uuid # "" /\ prev.uuid # uuid
       THEN /\ tasks' = [tasks EXCEPT ![i] = [t EXCEPT !.pc = "auth.markPrevOffline",
                                                       !.prevUuid = prev.uuid,
                                                       !.prevId = prev.id]]
            /\ calls' = [calls EXCEPT ![MsgProc(i)] = StartCall("markOffline", prev.uuid, NoRec)]
       ELSE /\ tasks' = [tasks EXCEPT ![i] = [t EXCEPT !.pc = "auth.fetchRoles"]]
            /\ calls' = [calls EXCEPT ![MsgProc(i)] = StartCall("fetchRoles", uuid, NoRec)]

\* A ping handler that answers a socket without an entry too.
handlePingStartPongsAnyone(s, i) ==
    LET state == connections[s] IN
    IF state.id = 0
    THEN /\ UNCHANGED <<tasks, calls>>
         /\ Commit(safeSend(Mem, s, [type |-> "pong"]))
    ELSE /\ tasks' = [tasks EXCEPT ![i] = [IdleTask EXCEPT !.pc = "ping.updateLastSeen",
                                                          !.socket = s, !.uuid = state.uuid]]
         /\ calls' = [calls EXCEPT ![MsgProc(i)] = StartCall("updateLastSeen", state.uuid, NoRec)]
         /\ Commit([Mem EXCEPT !.conns[s].lastSeen = now, !.conns[s].isAlive = TRUE])

\* handlePing up to its await, then the listener when there is no await.
handlePingStart(s, i) ==
    LET state == connections[s] IN
    IF state.id = 0
    THEN /\ UNCHANGED <<tasks, calls>>
         /\ Commit(TouchAfterHandler(Mem, s))
    ELSE /\ tasks' = [tasks EXCEPT ![i] = [IdleTask EXCEPT !.pc = "ping.updateLastSeen",
                                                          !.socket = s, !.uuid = state.uuid]]
         /\ calls' = [calls EXCEPT ![MsgProc(i)] = StartCall("updateLastSeen", state.uuid, NoRec)]
         /\ Commit([Mem EXCEPT !.conns[s].lastSeen = now, !.conns[s].isAlive = TRUE])

handleRolesUpdateStart(s, msg, i) ==
    LET state == connections[s]
        normalizedRoles == normalizeRoles(msg.roles)
    IN
    IF state.id = 0
    THEN /\ UNCHANGED <<tasks, calls>>
         /\ Commit(TouchAfterHandler(Mem, s))
    ELSE /\ tasks' = [tasks EXCEPT ![i] = [IdleTask EXCEPT !.pc = "roles.updateRoles",
                                                          !.socket = s, !.uuid = state.uuid,
                                                          !.roles = normalizedRoles]]
         /\ calls' = [calls EXCEPT ![MsgProc(i)] =
                         StartCall("updateRoles", state.uuid, [NoRec EXCEPT !.roles = normalizedRoles])]
         /\ Commit([Mem EXCEPT !.conns[s].roles = normalizedRoles])

handleWarpStatusStart(s, i) ==
    LET state == connections[s] IN
    IF state.id = 0 \/ state.uuid = ""
    THEN /\ UNCHANGED <<tasks, calls>>
         /\ Commit(TouchAfterHandler(Mem, s))
    ELSE /\ tasks' = [tasks EXCEPT ![i] = [IdleTask EXCEPT !.pc = "warp.put",
                                                          !.socket = s, !.uuid = state.uuid]]
         /\ calls' = [calls EXCEPT ![MsgProc(i)] = StartCall("kvPut", state.uuid, NoRec)]
         /\ Commit(Mem)

\* The message listener of handleWebSocket, from the event to the first await.
\* A frame the schema refuses, and any frame when warpKv does not resolve (the
\* call's arguments throw a ReferenceError inside the try), is answered by one
\* error frame.
onMessage(s, f) ==
    /\ ready[s] = "OPEN"
    /\ frames' = frames + 1
    /\ IF ~SchemaOk(f) \/ ~warpKvBound
       THEN /\ Commit(safeSend(Mem, s, ErrorFrame))
            /\ UNCHANGED <<tasks, calls>>
       ELSE /\ FreeTasks # {}
            /\ LET msg == Parsed(f)
                   i == NewTask
               IN CASE msg.type = "auth" -> handleAuthStart(s, msg, i) /\ Commit(Mem)
                    [] msg.type = "ping" -> handlePingStart(s, i)
                    [] msg.type = "roles.update" -> handleRolesUpdateStart(s, msg, i)
                    [] msg.type = "warp.status" -> handleWarpStatusStart(s, i)
    /\ UNCHANGED <<now, warpKvBound, users, startKv, persist, rateLimitState, http, responses, sendBroken, rows, closers, hb, vf>>

\* A client sends a frame, within the number of frames of a run.
MessageEvent(s, f) == frames < MaxFrames /\ onMessage(s, f)

\* A change of identity that tells nobody that the previous user has left.
AuthAfterMarkPrevOfflineSilent(i) ==
    LET t == tasks[i] IN
    /\ t.pc = "auth.markPrevOffline"
    /\ Returned(MsgProc(i))
    /\ Commit(Mem)
    /\ tasks' = [tasks EXCEPT ![i].pc = "auth.fetchRoles"]
    /\ calls' = [calls EXCEPT ![MsgProc(i)] = StartCall("fetchRoles", t.uuid, NoRec)]
    /\ UNCHANGED <<now, warpKvBound, users, startKv, persist, rateLimitState, http, responses, sendBroken, rows, closers, hb, vf, frames>>

\* handleAuth after `await presence.markOffline(previousState.uuid)`.
AuthAfterMarkPrevOffline(i) ==
    LET t == tasks[i]
        b == broadcastToAll(Mem, UserLeave(t.prevUuid))
    IN
    /\ t.pc = "auth.markPrevOffline"
    /\ Returned(MsgProc(i))
    /\ Commit([b EXCEPT !.leaves[t.prevId] = @ + 1])
    /\ tasks' = [tasks EXCEPT ![i].pc = "auth.fetchRoles"]
    /\ calls' = [calls EXCEPT ![MsgProc(i)] = StartCall("fetchRoles", t.uuid, NoRec)]
    /\ UNCHANGED <<now, warpKvBound, users, startKv, persist, rateLimitState, http, responses, sendBroken, rows, closers, hb, vf, frames>>

\* A ConnectionState that has not been seen yet.
NewStateUnseen(id, t, effectiveRoles) ==
    [id |-> id, uuid |-> t.uuid, name |-> t.name, accountType |-> t.accountType,
     roles |-> effectiveRoles, connectedAt |-> now, lastSeen |-> 0,
     lastKeepAliveAt |-> now, isAlive |-> TRUE]

\* The ConnectionState handleAuth builds (lines 343-354).
NewState(id, t, effectiveRoles) ==
    [id |-> id, uuid |-> t.uuid, name |-> t.name, accountType |-> t.accountType,
     roles |-> effectiveRoles, connectedAt |-> now, lastSeen |-> now,
     lastKeepAliveAt |-> now, isAlive |-> TRUE]

\* handleAuth after `await presence.fetchRoles(uuid)`: the roles are resolved, the
\* entry is inserted and markOnline is issued.
AuthAfterFetchRoles(i) ==
    LET t == tasks[i]
        effectiveRoles == EffectiveRoles(RolesFromDb(calls[MsgProc(i)]), t.roles)
        id == NextEntryId
        m == MapSet(Mem, t.socket, NewState(id, t, effectiveRoles))
    IN
    /\ t.pc = "auth.fetchRoles"
    /\ Returned(MsgProc(i))
    /\ Commit([m EXCEPT !.created[id] = [socket |-> t.socket, uuid |-> t.uuid,
                                         name |-> t.name, accountType |-> t.accountType]])
    /\ tasks' = [tasks EXCEPT ![i].pc = "auth.markOnline", ![i].id = id,
                              ![i].roles = effectiveRoles]
    /\ calls' = [calls EXCEPT ![MsgProc(i)] =
                    StartCall("markOnline", t.uuid,
                              [name |-> t.name, accountType |-> t.accountType,
                               roles |-> effectiveRoles])]
    /\ UNCHANGED <<now, warpKvBound, users, startKv, persist, rateLimitState, http, responses, sendBroken, rows, closers, hb, vf, frames>>

\* An announcement that repeats the user.join broadcast.
AnnounceAuthTwice(m, t) ==
    LET a == safeSend(m, t.socket, AuthOk(t.uuid, t.roles))
        b == broadcastToAll(a, UserJoin(t.uuid, t.name, t.accountType))
        c == broadcastToAll(b, UserJoin(t.uuid, t.name, t.accountType))
    IN [c EXCEPT !.joins[t.id] = @ \o <<UserJoin(t.uuid, t.name, t.accountType),
                                        UserJoin(t.uuid, t.name, t.accountType)>>]

\* An announcement that is made only when the store holds the user's row.
AnnounceAuthWhenStored(m, t) ==
    IF rows[t.uuid].exists
    THEN LET a == safeSend(m, t.socket, AuthOk(t.uuid, t.roles))
             b == broadcastToAll(a, UserJoin(t.uuid, t.name, t.accountType))
         IN [b EXCEPT !.joins[t.id] = Append(@, UserJoin(t.uuid, t.name, t.accountType))]
    ELSE m

\* An announcement that broadcasts user.join before it answers auth.ok.
AnnounceAuthJoinFirst(m, t) ==
    LET a == broadcastToAll(m, UserJoin(t.uuid, t.name, t.accountType))
        b == safeSend(a, t.socket, AuthOk(t.uuid, t.roles))
    IN [b EXCEPT !.joins[t.id] = Append(@, UserJoin(t.uuid, t.name, t.accountType))]

\* handleAuth lines 368-378: auth.ok to the socket, then the user.join broadcast.
AnnounceAuth(m, t) ==
    LET a == safeSend(m, t.socket, AuthOk(t.uuid, t.roles))
        b == broadcastToAll(a, UserJoin(t.uuid, t.name, t.accountType))
    IN [b EXCEPT !.joins[t.id] = Append(@, UserJoin(t.uuid, t.name, t.accountType))]

\* handleAuth after `await presence.markOnline(..)`, then the listener's stamp.
AuthAfterMarkOnline(i) ==
    LET t == tasks[i] IN
    /\ t.pc = "auth.markOnline"
    /\ Returned(MsgProc(i))
    /\ Commit(TouchAfterHandler(AnnounceAuth(Mem, t), t.socket))
    /\ tasks' = [tasks EXCEPT ![i] = IdleTask]
    /\ calls' = [calls EXCEPT ![MsgProc(i)] = NoCall]
    /\ UNCHANGED <<now, warpKvBound, users, startKv, persist, rateLimitState, http, responses, sendBroken, rows, closers, hb, vf, frames>>

\* handlePing after `await presence.updateLastSeen(..)`: the pong.
PingAfterUpdateLastSeenStrict(i) ==
    LET t == tasks[i] IN
    /\ t.pc = "ping.updateLastSeen"
    /\ Returned(MsgProc(i))
    /\ Commit(TouchAfterHandler(IF calls[MsgProc(i)].st = "ok"
                                THEN safeSend(Mem, t.socket, [type |-> "pong"])
                                ELSE Mem, t.socket))
    /\ tasks' = [tasks EXCEPT ![i] = IdleTask]
    /\ calls' = [calls EXCEPT ![MsgProc(i)] = NoCall]
    /\ UNCHANGED <<now, warpKvBound, users, startKv, persist, rateLimitState, http, responses, sendBroken, rows, closers, hb, vf, frames>>

\* handlePing after `await presence.updateLastSeen(..)`: the pong.
PingAfterUpdateLastSeen(i) ==
    LET t == tasks[i] IN
    /\ t.pc = "ping.updateLastSeen"
    /\ Returned(MsgProc(i))
    /\ Commit(TouchAfterHandler(safeSend(Mem, t.socket, [type |-> "pong"]), t.socket))
    /\ tasks' = [tasks EXCEPT ![i] = IdleTask]
    /\ calls' = [calls EXCEPT ![MsgProc(i)] = NoCall]
    /\ UNCHANGED <<now, warpKvBound, users, startKv, persist, rateLimitState, http, responses, sendBroken, rows, closers, hb, vf, frames>>

\* handleRolesUpdate after `await presence.updateRoles(..)`: the user.roles broadcast.
RolesAfterUpdateRoles(i) ==
    LET t == tasks[i]
        b == broadcastToAll(Mem, [type |-> "user.roles", uuid |-> t.uuid, roles |-> t.roles])
    IN
    /\ t.pc = "roles.updateRoles"
    /\ Returned(MsgProc(i))
    /\ Commit(TouchAfterHandler(b, t.socket))
    /\ tasks' = [tasks EXCEPT ![i] = IdleTask]
    /\ calls' = [calls EXCEPT ![MsgProc(i)] = NoCall]
    /\ UNCHANGED <<now, warpKvBound, users, startKv, persist, rateLimitState, http, responses, sendBroken, rows, closers, hb, vf, frames>>

\* handleWarpStatus after `await warpKv.put(..)`.
WarpAfterPut(i) ==
    LET t == tasks[i] IN
    /\ t.pc = "warp.put"
    /\ Returned(MsgProc(i))
    /\ Commit(TouchAfterHandler(Mem, t.socket))
    /\ tasks' = [tasks EXCEPT ![i] = IdleTask]
    /\ calls' = [calls EXCEPT ![MsgProc(i)] = NoCall]
    /\ UNCHANGED <<now, warpKvBound, users, startKv, persist, rateLimitState, http, responses, sendBroken, rows, closers, hb, vf, frames>>

\* ---------------------------------------------------------- close listener
Evicting(s, state, code) ==
    [pc |-> "markOffline", socket |-> s, uuid |-> state.uuid, id |-> state.id, code |-> code,
     reason |-> ""]
EvictingFor(s, state, code, reason) == [Evicting(s, state, code) EXCEPT !.reason = reason]

\* The close listener up to the await inside cleanupConnection; with no entry for
\* the socket cleanupConnection returns at once.
CloseEvent(s) ==
    LET state == connections[s] IN
    /\ closeQueued[s]
    /\ IF state.id = 0
       THEN /\ Commit([Mem EXCEPT !.closeQueued[s] = FALSE])
            /\ UNCHANGED <<closers, calls>>
       ELSE /\ Commit([cleanupDelete(Mem, s) EXCEPT !.closeQueued[s] = FALSE])
            /\ closers' = [closers EXCEPT ![s] = Evicting(s, state, 0)]
            /\ calls' = [calls EXCEPT ![CloseProc(s)] = StartCall("markOffline", state.uuid, NoRec)]
    /\ UNCHANGED <<now, warpKvBound, users, startKv, persist, rateLimitState, http, responses, sendBroken, rows, tasks, hb, vf, frames>>

\* The close listener after `await presence.markOffline(..)`.
CloseAfterMarkOffline(s) ==
    /\ closers[s].pc = "markOffline"
    /\ Returned(CloseProc(s))
    /\ Commit(cleanupFinish(Mem, closers[s]))
    /\ closers' = [closers EXCEPT ![s] = IdleCleanup]
    /\ calls' = [calls EXCEPT ![CloseProc(s)] = NoCall]
    /\ UNCHANGED <<now, warpKvBound, users, startKv, persist, rateLimitState, http, responses, sendBroken, rows, tasks, hb, vf, frames>>

\* ---------------------------------------------------------- heartbeat loop
tickEveryMs == Max(HbClampMin, Min(HbInterval, HbClampMax))
KeepAlive == [type |-> "server.keepalive"]

\* A test that already fires at the threshold itself.
InactiveAtThreshold(tickNow, state) == tickNow - state.lastSeen >= OfflineAfter

\* Lines 504-505: inactiveFor > offlineAfterMs.
Inactive(tickNow, state) == tickNow - state.lastSeen > OfflineAfter

\* A keepalive that is sent on every visit.
KeepAliveDueAlways(tickNow, state) == TRUE

\* Line 509: now - state.lastKeepAliveAt >= tickEveryMs - 250.
KeepAliveDue(tickNow, state) == tickNow - state.lastKeepAliveAt >= tickEveryMs - KeepAliveSlack

\* A loop that passes over the sockets that are not OPEN.
RECURSIVE hbLoopOpenOnly(_, _)
hbLoopOpenOnly(m, tickNow) ==
    IF m.cursor.hb >= Len(m.order) THEN [m |-> m, c |-> IdleCleanup]
    ELSE LET s == m.order[m.cursor.hb + 1]
             state == m.conns[s]
             next == [m EXCEPT !.cursor.hb = @ + 1]
         IN IF m.ready[s] # "OPEN"
            THEN hbLoopOpenOnly(next, tickNow)
            ELSE IF Inactive(tickNow, state)
            THEN [m |-> cleanupDelete(m, s),
                  c |-> EvictingFor(s, state, CodeInactivity, "inactivity_timeout")]
            ELSE IF KeepAliveDue(tickNow, state)
            THEN IF sendBroken[s]
                 THEN [m |-> cleanupDelete(m, s),
                       c |-> EvictingFor(s, state, CodeKeepaliveFailed, "keepalive_failed")]
                 ELSE hbLoopOpenOnly([next EXCEPT !.outbox[s] = Append(@, KeepAlive),
                                                  !.conns[s].lastKeepAliveAt = tickNow], tickNow)
            ELSE hbLoopOpenOnly(next, tickNow)

\* The body of the tick's for-loop, from the iterator's position to the next
\* await (an eviction: c is the cleanup in progress) or to the end of the Map
\* (c is idle).
RECURSIVE hbLoop(_, _)
hbLoop(m, tickNow) ==
    IF m.cursor.hb >= Len(m.order) THEN [m |-> m, c |-> IdleCleanup]
    ELSE LET s == m.order[m.cursor.hb + 1]
             state == m.conns[s]
             next == [m EXCEPT !.cursor.hb = @ + 1]
         IN IF m.ready[s] # "OPEN"
            THEN [m |-> cleanupDelete(m, s),
                  c |-> EvictingFor(s, state, CodeSocketNotOpen, "socket_not_open")]
            ELSE IF Inactive(tickNow, state)
            THEN [m |-> cleanupDelete(m, s),
                  c |-> EvictingFor(s, state, CodeInactivity, "inactivity_timeout")]
            ELSE IF KeepAliveDue(tickNow, state)
            THEN IF sendBroken[s]
                 THEN [m |-> cleanupDelete(m, s),
                       c |-> EvictingFor(s, state, CodeKeepaliveFailed, "keepalive_failed")]
                 ELSE hbLoop([next EXCEPT !.outbox[s] = Append(@, KeepAlive),
                                          !.conns[s].lastKeepAliveAt = tickNow], tickNow)
            ELSE hbLoop(next, tickNow)

\* What a run of the loop leaves: suspended in an eviction, or the tick is over
\* and `finally` clears the guard.
HbContinue(r, tickNow, fired) ==
    /\ Commit(IF r.c.pc = "idle" THEN [r.m EXCEPT !.cursor.hb = 0] ELSE r.m)
    /\ hb' = [ticking |-> r.c.pc # "idle", now |-> IF r.c.pc = "idle" THEN 0 ELSE tickNow,
              c |-> r.c, fired |-> fired]
    /\ calls' = [calls EXCEPT ![HbProc] =
                    IF r.c.pc = "idle" THEN NoCall ELSE StartCall("markOffline", r.c.uuid, NoRec)]

\* A loop whose keepalive counts as a sign of life of the client.
RECURSIVE hbLoopStamping(_, _)
hbLoopStamping(m, tickNow) ==
    IF m.cursor.hb >= Len(m.order) THEN [m |-> m, c |-> IdleCleanup]
    ELSE LET s == m.order[m.cursor.hb + 1]
             state == m.conns[s]
             next == [m EXCEPT !.cursor.hb = @ + 1]
         IN IF m.ready[s] # "OPEN"
            THEN [m |-> cleanupDelete(m, s),
                  c |-> EvictingFor(s, state, CodeSocketNotOpen, "socket_not_open")]
            ELSE IF Inactive(tickNow, state)
            THEN [m |-> cleanupDelete(m, s),
                  c |-> EvictingFor(s, state, CodeInactivity, "inactivity_timeout")]
            ELSE IF KeepAliveDue(tickNow, state)
            THEN IF sendBroken[s]
                 THEN [m |-> cleanupDelete(m, s),
                       c |-> EvictingFor(s, state, CodeKeepaliveFailed, "keepalive_failed")]
                 ELSE hbLoopStamping([next EXCEPT !.outbox[s] = Append(@, KeepAlive),
                                                  !.conns[s].lastKeepAliveAt = tickNow,
                                                  !.conns[s].lastSeen = tickNow], tickNow)
            ELSE hbLoopStamping(next, tickNow)

\* A timer whose keepalives stamp lastSeen.
HbFireStamping ==
    /\ hb.fired < MaxHbTicks
    /\ IF hb.ticking
       THEN /\ hb' = [hb EXCEPT !.fired = @ + 1]
            /\ Commit(Mem)
            /\ UNCHANGED calls
       ELSE HbContinue(hbLoopStamping([Mem EXCEPT !.cursor.hb = 0], now), now, hb.fired + 1)
    /\ UNCHANGED <<now, warpKvBound, users, startKv, persist, rateLimitState, http, responses, sendBroken, rows, tasks, closers, vf, frames>>

\* A timer that starts a tick whether or not one is in progress.
HbFireUnguarded ==
    /\ hb.fired < MaxHbTicks
    /\ HbContinue(hbLoop([Mem EXCEPT !.cursor.hb = 0], now), now, hb.fired + 1)
    /\ UNCHANGED <<now, warpKvBound, users, startKv, persist, rateLimitState, http, responses, sendBroken, rows, tasks, closers, vf, frames>>

\* setInterval fires: tick() returns at once while a tick is in progress.
HbFire ==
    /\ hb.fired < MaxHbTicks
    /\ IF hb.ticking
       THEN /\ hb' = [hb EXCEPT !.fired = @ + 1]
            /\ Commit(Mem)
            /\ UNCHANGED calls
       ELSE HbContinue(hbLoop([Mem EXCEPT !.cursor.hb = 0], now), now, hb.fired + 1)
    /\ UNCHANGED <<now, warpKvBound, users, startKv, persist, rateLimitState, http, responses, sendBroken, rows, tasks, closers, vf, frames>>

\* A timer whose tick passes over the sockets that are not OPEN.
HbFireForeverOpenOnly ==
    /\ IF hb.ticking
       THEN /\ hb' = hb
            /\ Commit(Mem)
            /\ UNCHANGED calls
       ELSE HbContinue(hbLoopOpenOnly([Mem EXCEPT !.cursor.hb = 0], now), now, hb.fired)
    /\ UNCHANGED <<now, warpKvBound, users, startKv, persist, rateLimitState, http, responses, sendBroken, rows, tasks, closers, vf, frames>>

\* setInterval goes on firing for as long as the process lives: the same tick,
\* without the count of firings.
HbFireForever ==
    /\ IF hb.ticking
       THEN /\ hb' = hb
            /\ Commit(Mem)
            /\ UNCHANGED calls
       ELSE HbContinue(hbLoop([Mem EXCEPT !.cursor.hb = 0], now), now, hb.fired)
    /\ UNCHANGED <<now, warpKvBound, users, startKv, persist, rateLimitState, http, responses, sendBroken, rows, tasks, closers, vf, frames>>

\* The tick after `await cleanupConnection(..)`: the eviction ends and the loop
\* goes on with the tick's own `now`.
HbAfterMarkOffline ==
    /\ hb.c.pc = "markOffline"
    /\ Returned(HbProc)
    /\ HbContinue(hbLoop(cleanupFinish(Mem, hb.c), hb.now), hb.now, hb.fired)
    /\ UNCHANGED <<now, warpKvBound, users, startKv, persist, rateLimitState, http, responses, sendBroken, rows, tasks, closers, vf, frames>>

\* ------------------------------------------------------- verification loop
ServerVerify(state) == [type |-> "server.verify", uuid |-> state.uuid, lastSeen |-> state.lastSeen]

\* What the run does with the answer of fetchOnlineUsers: a failure is caught and
\* replaced by the empty list.
SnapshotOf(call) == IF call.st = "ok" THEN call.res ELSE [u \in Uuids |-> NoRow]

\* A verdict that lets a connection pass when the store has no row for it.
VerifyVerdictLenient(byUuid, state) ==
    LET row == byUuid[state.uuid] IN
    IF row.exists /\ ~row.online THEN "verification_d1_offline"
    ELSE IF row.exists /\ (row.name # state.name \/ row.accountType # state.accountType)
    THEN "verification_identity_mismatch"
    ELSE "ok"

\* A verdict that compares the identity before it looks for the record.
VerifyVerdictIdentityFirst(byUuid, state) ==
    LET row == byUuid[state.uuid] IN
    IF row.name # state.name \/ row.accountType # state.accountType
    THEN "verification_identity_mismatch"
    ELSE IF ~row.exists \/ ~row.online THEN "verification_d1_offline"
    ELSE "ok"

\* The verdict on one OPEN connection against byUuid (lines 572-590).
VerifyVerdict(byUuid, state) ==
    LET row == byUuid[state.uuid] IN
    IF ~row.exists \/ ~row.online THEN "verification_d1_offline"
    ELSE IF row.name # state.name \/ row.accountType # state.accountType
    THEN "verification_identity_mismatch"
    ELSE "ok"

\* History of a run: how fetchOnlineUsers answered and which entries the
\* registry held when it did.
NoSnap == [answer |-> "none", present |-> {}]
SnapHistory(call) ==
    [answer |-> IF call.st # "ok" THEN "fail"
                ELSE IF \A u \in Uuids : ~call.res[u].exists THEN "empty" ELSE "rows",
     present |-> call.at]

RECURSIVE vfLoop(_, _)
vfLoop(m, byUuid) ==
    IF m.cursor.vf >= Len(m.order) THEN [m |-> m, c |-> IdleCleanup]
    ELSE LET s == m.order[m.cursor.vf + 1]
             state == m.conns[s]
             next == [m EXCEPT !.cursor.vf = @ + 1]
         IN IF m.ready[s] # "OPEN"
            THEN [m |-> cleanupDelete(m, s),
                  c |-> EvictingFor(s, state, CodeKeepaliveFailed, "verification_socket_not_open")]
            ELSE IF VerifyVerdict(byUuid, state) # "ok"
            THEN [m |-> cleanupDelete(m, s),
                  c |-> EvictingFor(s, state, CodeVerification, VerifyVerdict(byUuid, state))]
            ELSE vfLoop(safeSend(next, s, ServerVerify(state)), byUuid)

VfContinue(r, byUuid, snap) ==
    /\ Commit(IF r.c.pc = "idle" THEN [r.m EXCEPT !.cursor.vf = 0] ELSE r.m)
    /\ vf' = [vf EXCEPT !.snap = snap,
                        !.running = r.c.pc # "idle",
                        !.pc = IF r.c.pc = "idle" THEN "idle" ELSE "cleanup",
                        !.byUuid = IF r.c.pc = "idle" THEN [u \in Uuids |-> NoRow] ELSE byUuid,
                        !.c = r.c]
    /\ calls' = [calls EXCEPT ![VfProc] =
                    IF r.c.pc = "idle" THEN NoCall ELSE StartCall("markOffline", r.c.uuid, NoRec)]

\* setInterval fires: run() returns at once while a run is in progress, else it
\* asks the store for the online users.
run ==
    /\ IF vf.running
       THEN /\ vf' = [vf EXCEPT !.fired = @ + 1]
            /\ UNCHANGED calls
       ELSE /\ vf' = [vf EXCEPT !.fired = @ + 1, !.running = TRUE, !.pc = "fetch"]
            /\ calls' = [calls EXCEPT ![VfProc] = StartCall("fetchOnlineUsers", "", NoRec)]
    /\ UNCHANGED <<now, warpKvBound, users, startKv, persist, rateLimitState, http, responses, ready, sendBroken, closeQueued, closeCode,
                   connections, order, cursor, rows, tasks, closers, hb, outbox,
                   created, joins, leaves, frames>>

VfFire == vf.fired < MaxVerifyRuns /\ run

\* The run after `await presence.fetchOnlineUsers(..)`: the loop over the Map.
VfAfterFetch ==
    LET byUuid == SnapshotOf(calls[VfProc]) IN
    /\ vf.pc = "fetch"
    /\ Returned(VfProc)
    /\ VfContinue(vfLoop([Mem EXCEPT !.cursor.vf = 0], byUuid), byUuid,
                  SnapHistory(calls[VfProc]))
    /\ UNCHANGED <<now, warpKvBound, users, startKv, persist, rateLimitState, http, responses, sendBroken, rows, tasks, closers, hb, frames>>

\* The run after `await cleanupConnection(..)`.
VfAfterMarkOffline ==
    /\ vf.pc = "cleanup"
    /\ Returned(VfProc)
    /\ VfContinue(vfLoop(cleanupFinish(Mem, vf.c), vf.byUuid), vf.byUuid, vf.snap)
    /\ UNCHANGED <<now, warpKvBound, users, startKv, persist, rateLimitState, http, responses, sendBroken, rows, tasks, closers, hb, frames>>

\* ------------------------------------------------------------------ system
\* The presence table at start: empty, or holding canonical roles from an
\* earlier run of the gateway.
InitialTables ==
    {[u \in Uuids |-> NoRow],
     [u \in Uuids |-> IF u = "u1"
                      THEN [exists |-> TRUE, online |-> FALSE, name |-> "Alice",
                            accountType |-> "LOCAL", roles |-> <<"STAFF">>]
                      ELSE NoRow]}

\* The gateway after construction, the presence table aside.
InitGateway ==
    /\ now = 0
    /\ users = [u \in Uuids |-> NoUser]
    /\ warpKvBound \in BOOLEAN
    /\ ready = [s \in Sockets |-> "NONE"]
    /\ sendBroken = [s \in Sockets |-> FALSE]
    /\ closeQueued = [s \in Sockets |-> FALSE]
    /\ closeCode = [s \in Sockets |-> 0]
    /\ connections = [s \in Sockets |-> NoState]
    /\ order = <<>>
    /\ cursor = [hb |-> 0, vf |-> 0]
    /\ tasks = [i \in TaskIds |-> IdleTask]
    /\ closers = [s \in Sockets |-> IdleCleanup]
    /\ hb = [ticking |-> FALSE, now |-> 0, c |-> IdleCleanup, fired |-> 0]
    /\ vf = [running |-> FALSE, pc |-> "idle", byUuid |-> [u \in Uuids |-> NoRow],
             c |-> IdleCleanup, fired |-> 0, snap |-> NoSnap]
    /\ calls = [p \in ProcIds |-> NoCall]
    /\ outbox = [s \in Sockets |-> <<>>]
    /\ created = [e \in EntryIds |-> NoIdentity]
    /\ joins = [e \in EntryIds |-> <<>>]
    /\ leaves = [e \in EntryIds |-> 0]
    /\ frames = 0
    /\ rateLimitState = [a \in Addrs |-> NoBucket]
    /\ http = IdleHttp
    /\ responses = <<>>
    /\ persist = [k \in Instances |-> IdlePersist]

Init == InitGateway /\ rows \in InitialTables /\ startKv = NoStart

Next ==
    \/ \E s \in Sockets : Upgrade(s)
    \/ \E s \in Sockets : ClientClose(s)
    \/ \E s \in Sockets : BreakSocket(s)
    \/ \E d \in TimeSteps : AdvanceTime(d)
    \/ \E s \in Sockets, f \in ClientFrames : MessageEvent(s, f)
    \/ \E i \in TaskIds : AuthAfterMarkPrevOffline(i)
    \/ \E i \in TaskIds : AuthAfterFetchRoles(i)
    \/ \E i \in TaskIds : AuthAfterMarkOnline(i)
    \/ \E i \in TaskIds : PingAfterUpdateLastSeen(i)
    \/ \E i \in TaskIds : RolesAfterUpdateRoles(i)
    \/ \E i \in TaskIds : WarpAfterPut(i)
    \/ \E s \in Sockets : CloseEvent(s)
    \/ \E s \in Sockets : CloseAfterMarkOffline(s)
    \/ HbFire
    \/ HbAfterMarkOffline
    \/ VfFire
    \/ VfAfterFetch
    \/ VfAfterMarkOffline
    \/ \E p \in ProcIds : StoreExec(p)

Spec == Init /\ [][Next]_vars

\* Authentication at work: two clients send auth, ping and roles.update frames,
\* the second frame of a run arriving while the handler of the first may be
\* suspended, and the client that connected first may go away at any moment.
Quiet == \A i \in TaskIds : tasks[i].pc = "idle"
Paired == Quiet \/ frames = 1
QuietAdvanceTime(d) == Quiet /\ AdvanceTime(d)
ClosedSocket == 1

NextAuth ==
    \/ \E s \in Sockets : Upgrade(s)
    \/ ClientClose(ClosedSocket)
    \/ \E s \in Sockets, f \in AuthSpecFrames : Paired /\ MessageEvent(s, f)
    \/ \E i \in TaskIds : AuthAfterMarkPrevOffline(i)
    \/ \E i \in TaskIds : AuthAfterFetchRoles(i)
    \/ \E i \in TaskIds : AuthAfterMarkOnline(i)
    \/ \E i \in TaskIds : PingAfterUpdateLastSeen(i)
    \/ \E i \in TaskIds : RolesAfterUpdateRoles(i)
    \/ CloseEvent(ClosedSocket)
    \/ CloseAfterMarkOffline(ClosedSocket)
    \/ \E p \in ProcIds : StoreExec(p)

SpecAuth == Init /\ [][NextAuth]_vars

\* Authentication alone: two clients authenticate, under one uuid or two and
\* with or without a hint of roles, over either table; the client that connected
\* first may go away, its close event still waiting to be dispatched.
NextRoles ==
    \/ \E s \in Sockets : Upgrade(s)
    \/ ClientClose(ClosedSocket)
    \/ \E s \in Sockets, f \in AuthFrames : Paired /\ MessageEvent(s, f)
    \/ \E i \in TaskIds : AuthAfterMarkPrevOffline(i)
    \/ \E i \in TaskIds : AuthAfterFetchRoles(i)
    \/ \E i \in TaskIds : AuthAfterMarkOnline(i)
    \/ \E p \in ProcIds : StoreExec(p)

SpecRoles == Init /\ [][NextRoles]_vars

\* A fresh deployment: the warpKv binding resolves and the presence table is empty.
InitFresh ==
    /\ Init
    /\ warpKvBound
    /\ rows = [u \in Uuids |-> NoRow]

\* The verification loop at work: clients authenticate, one frame at a time,
\* and the client that connected first may close, while the timer fires.
VerifyFrames == {Frame("auth", "u1", "Alice", <<>>)}
QuietMessageEvent(s, f) == Quiet /\ MessageEvent(s, f)

NextVerify ==
    \/ \E s \in Sockets : Upgrade(s)
    \/ ClientClose(ClosedSocket)
    \/ \E s \in Sockets, f \in VerifyFrames : QuietMessageEvent(s, f)
    \/ \E i \in TaskIds : AuthAfterFetchRoles(i)
    \/ \E i \in TaskIds : AuthAfterMarkOnline(i)
    \/ CloseEvent(ClosedSocket)
    \/ CloseAfterMarkOffline(ClosedSocket)
    \/ VfFire
    \/ VfAfterFetch
    \/ VfAfterMarkOffline
    \/ \E p \in ProcIds : StoreExec(p)

SpecVerify == InitFresh /\ [][NextVerify]_vars

\* The heartbeat loop at work: clients authenticate (each frame sent after the
\* previous one was handled) and fall silent, and the client that connected
\* first may close, while time passes between the handlers and the timer fires.
HeartbeatFrames == {Frame("auth", "u1", "Alice", <<>>)}

NextHeartbeat ==
    \/ \E s \in Sockets : Upgrade(s)
    \/ ClientClose(ClosedSocket)
    \/ \E d \in TimeSteps : QuietAdvanceTime(d)
    \/ \E s \in Sockets, f \in HeartbeatFrames : QuietMessageEvent(s, f)
    \/ \E i \in TaskIds : AuthAfterFetchRoles(i)
    \/ \E i \in TaskIds : AuthAfterMarkOnline(i)
    \/ CloseEvent(ClosedSocket)
    \/ CloseAfterMarkOffline(ClosedSocket)
    \/ HbFire
    \/ HbAfterMarkOffline
    \/ \E p \in ProcIds : StoreExec(p)

SpecHeartbeat == InitFresh /\ [][NextHeartbeat]_vars

\* Either loop at work: in one run the heartbeat timer fires (and time passes)
\* or the verification timer fires, with clients authenticating one frame at a
\* time and closing.
SoloAdvanceTime(d) == vf.fired = 0 /\ AdvanceTime(d)
SoloHbFire == vf.fired = 0 /\ HbFire
SoloVfFire == hb.fired = 0 /\ now = 0 /\ VfFire

NextLoops ==
    \/ \E s \in Sockets : Upgrade(s)
    \/ \E s \in Sockets : ClientClose(s)
    \/ \E d \in TimeSteps : SoloAdvanceTime(d)
    \/ \E s \in Sockets, f \in HeartbeatFrames : QuietMessageEvent(s, f)
    \/ \E i \in TaskIds : AuthAfterFetchRoles(i)
    \/ \E i \in TaskIds : AuthAfterMarkOnline(i)
    \/ \E s \in Sockets : CloseEvent(s)
    \/ \E s \in Sockets : CloseAfterMarkOffline(s)
    \/ SoloHbFire
    \/ HbAfterMarkOffline
    \/ SoloVfFire
    \/ VfAfterFetch
    \/ VfAfterMarkOffline
    \/ \E p \in ProcIds : StoreExec(p)

SpecLoops == InitFresh /\ [][NextLoops]_vars

\* Every kind of frame at work: clients authenticate, ping, update roles and
\* report warp status, their handlers overlapping, while time passes; either
\* timer fires, and the close events of evicted sockets are dispatched.
HandledFrames ==
    {Frame("auth", "u1", "Alice", <<>>), PingFrame, RolesUpdateFrame, WarpStatusFrame}

NextFrames ==
    \/ \E s \in Sockets : Upgrade(s)
    \/ \E d \in TimeSteps : AdvanceTime(d)
    \/ \E s \in Sockets, f \in HandledFrames : MessageEvent(s, f)
    \/ \E i \in TaskIds : AuthAfterFetchRoles(i)
    \/ \E i \in TaskIds : AuthAfterMarkOnline(i)
    \/ \E i \in TaskIds : PingAfterUpdateLastSeen(i)
    \/ \E i \in TaskIds : RolesAfterUpdateRoles(i)
    \/ \E i \in TaskIds : WarpAfterPut(i)
    \/ \E s \in Sockets : CloseEvent(s)
    \/ \E s \in Sockets : CloseAfterMarkOffline(s)
    \/ SoloHbFire
    \/ HbAfterMarkOffline
    \/ SoloVfFire
    \/ VfAfterFetch
    \/ VfAfterMarkOffline
    \/ \E p \in ProcIds : StoreExec(p)

SpecFrames == InitFresh /\ [][NextFrames]_vars

\* Fan-out between two clients with the timers at rest: two clients authenticate,
\* one of them updates its roles, and a client may go away, its close event
\* still waiting to be dispatched.  The second frame of a run may arrive while
\* the handler of the first is suspended; a later frame arrives once the
\* handlers before it are done.
FanoutFrames ==
    {Frame("auth", "u1", "Alice", <<>>), Frame("auth", "u2", "Bob", <<"STAFF">>),
     RolesUpdateFrame}
FanoutMessageEvent(s, f) == frames < MaxFanoutFrames /\ onMessage(s, f)
PairedMessageEvent(s, f) == Paired /\ FanoutMessageEvent(s, f)

NextFanout ==
    \/ \E s \in Sockets : Upgrade(s)
    \/ \E s \in Sockets : ClientClose(s)
    \/ \E s \in Sockets, f \in FanoutFrames : PairedMessageEvent(s, f)
    \/ \E i \in TaskIds : AuthAfterMarkPrevOffline(i)
    \/ \E i \in TaskIds : AuthAfterFetchRoles(i)
    \/ \E i \in TaskIds : AuthAfterMarkOnline(i)
    \/ \E i \in TaskIds : RolesAfterUpdateRoles(i)
    \/ \E p \in ProcIds : StoreExec(p)

SpecFanout == InitFresh /\ [][NextFanout]_vars

\* Frames good and bad, with a store that may fail: clients authenticate, change
\* identity, ping and update roles, or send frames the parser refuses; time
\* passes between the frames.
ProtocolFrames ==
    {Frame("auth", "u1", "Alice", <<>>), Frame("auth", "u2", "Bob", <<"STAFF">>),
     PingFrame, RolesUpdateFrame} \cup InvalidFrames
IdleAdvanceTime == Quiet /\ AdvanceTime(HbInterval)

NextProtocol ==
    \/ \E s \in Sockets : Upgrade(s)
    \/ IdleAdvanceTime
    \/ \E s \in Sockets, f \in ProtocolFrames : FanoutMessageEvent(s, f)
    \/ \E i \in TaskIds : AuthAfterMarkPrevOffline(i)
    \/ \E i \in TaskIds : AuthAfterFetchRoles(i)
    \/ \E i \in TaskIds : AuthAfterMarkOnline(i)
    \/ \E i \in TaskIds : PingAfterUpdateLastSeen(i)
    \/ \E i \in TaskIds : RolesAfterUpdateRoles(i)
    \/ \E p \in ProcIds : StoreExec(p)

SpecProtocol == InitFresh /\ [][NextProtocol]_vars

\* The rate limiter alone: requests that are answered at once, from two
\* addresses, while time passes.
LimiterRoutes == {"OPTIONS", "GET /other"} \cup AdminRoutes
LimiterRequest(addr, route) ==
    Answered < MaxRequests /\ onRequest(addr, route, "none", EmptyObjectBody)

NextLimiter ==
    \/ \E d \in TimeSteps : AdvanceTime(d)
    \/ \E addr \in Addrs, route \in LimiterRoutes : LimiterRequest(addr, route)

SpecLimiter == InitFresh /\ [][NextLimiter]_vars

\* The admin surface with clients connected: clients authenticate one at a time
\* while requests with and without the admin key arrive from one address.
AdminRequest(addr, route, key, body) ==
    Answered < MaxAdminRequests /\ onRequest(addr, route, key, body)

NextAdmin ==
    \/ \E s \in Sockets : Upgrade(s)
    \/ \E s \in Sockets, f \in HeartbeatFrames : QuietMessageEvent(s, f)
    \/ \E i \in TaskIds : AuthAfterFetchRoles(i)
    \/ \E i \in TaskIds : AuthAfterMarkOnline(i)
    \/ \E route \in AdminRoutes \cup {"GET /v1/health"}, key \in HeaderKeys,
          body \in {NotJsonBody, EmptyObjectBody, BannerBody} :
             AdminRequest("10.0.0.1", route, key, body)
    \/ HttpAfterStore
    \/ HttpAfterBody
    \/ \E p \in ProcIds : StoreExec(p)

SpecAdmin == InitFresh /\ [][NextAdmin]_vars

\* The listing of connected users: clients authenticate under one uuid or two
\* and ping as time passes, while requests with and without the admin key ask
\* for the list and the store answers or fails.
UsersFrames == {Frame("auth", "u1", "Alice", <<>>), Frame("auth", "u2", "Bob", <<"STAFF">>),
                PingFrame}
UsersRequest(key) ==
    /\ Quiet /\ Answered < MaxUsersRequests
    /\ onRequest("10.0.0.1", "GET /v1/connected-users", key, EmptyObjectBody)

NextUsers ==
    \/ \E s \in Sockets : Upgrade(s)
    \/ Quiet /\ http.pc = "idle" /\ AdvanceTime(HbInterval)
    \/ \E s \in Sockets, f \in UsersFrames : Quiet /\ FanoutMessageEvent(s, f)
    \/ \E i \in TaskIds : AuthAfterMarkPrevOffline(i)
    \/ \E i \in TaskIds : AuthAfterFetchRoles(i)
    \/ \E i \in TaskIds : AuthAfterMarkOnline(i)
    \/ \E i \in TaskIds : PingAfterUpdateLastSeen(i)
    \/ \E key \in {"none", AdminKey} : UsersRequest(key)
    \/ HttpAfterStore
    \/ \E p \in ProcIds : StoreExec(p)

SpecUsers == InitFresh /\ [][NextUsers]_vars

\* A closed socket under a heartbeat that never stops: one client authenticates
\* and closes at any moment, before or after its handlers resume.
NextClosed ==
    \/ Upgrade(ClosedSocket)
    \/ ClientClose(ClosedSocket)
    \/ \E f \in VerifyFrames : MessageEvent(ClosedSocket, f)
    \/ \E i \in TaskIds : AuthAfterFetchRoles(i)
    \/ \E i \in TaskIds : AuthAfterMarkOnline(i)
    \/ CloseEvent(ClosedSocket)
    \/ CloseAfterMarkOffline(ClosedSocket)
    \/ HbFireForever
    \/ HbAfterMarkOffline
    \/ \E p \in ProcIds : StoreExec(p)

\* The event loop runs every continuation that is ready and dispatches every
\* queued close event; store calls return; the interval timer keeps firing.
Continuation ==
    \/ \E i \in TaskIds : AuthAfterFetchRoles(i) \/ AuthAfterMarkOnline(i)
    \/ CloseEvent(ClosedSocket) \/ CloseAfterMarkOffline(ClosedSocket)
    \/ HbAfterMarkOffline
FairClosed ==
    /\ WF_vars(Continuation)
    /\ WF_vars(HbFireForever)
    /\ WF_vars(\E p \in ProcIds : StoreExec(p))

SpecClosed == InitFresh /\ [][NextClosed]_vars /\ FairClosed

\* Clients that fall silent: they authenticate, ping, or send a frame the schema
\* refuses, one frame at a time, while time passes and both loops send them
\* their keepalives and verifications.
SilentFrames == {Frame("auth", "u1", "Alice", <<>>), PingFrame, Frame("garbage", "", "", <<>>)}

NextSilent ==
    \/ \E s \in Sockets : Upgrade(s)
    \/ \E d \in TimeSteps : Quiet /\ AdvanceTime(d)
    \/ \E s \in Sockets, f \in SilentFrames : QuietMessageEvent(s, f)
    \/ \E i \in TaskIds : AuthAfterFetchRoles(i)
    \/ \E i \in TaskIds : AuthAfterMarkOnline(i)
    \/ \E i \in TaskIds : PingAfterUpdateLastSeen(i)
    \/ HbFire
    \/ HbAfterMarkOffline
    \/ VfFire
    \/ VfAfterFetch
    \/ VfAfterMarkOffline
    \/ \E p \in ProcIds : StoreExec(p)

SpecSilent == InitFresh /\ [][NextSilent]_vars

\* The presence coordinator alone, from an empty Map: any sequence of events.
NextPresence == \E data \in Events : PostEvent(data)

SpecPresence == InitFresh /\ [][NextPresence]_vars

\* The heartbeat over every kind of entry: clients authenticate, close without
\* their close event being dispatched yet, or lose their transport, while time
\* passes between handlers and the timer fires.
NextTick ==
    \/ \E s \in Sockets : Upgrade(s)
    \/ \E s \in Sockets : ClientClose(s)
    \/ \E s \in Sockets : BreakSocket(s)
    \/ \E d \in TimeSteps : QuietAdvanceTime(d)
    \/ \E s \in Sockets, f \in HeartbeatFrames : QuietMessageEvent(s, f)
    \/ \E i \in TaskIds : AuthAfterFetchRoles(i)
    \/ \E i \in TaskIds : AuthAfterMarkOnline(i)
    \/ HbFire
    \/ HbAfterMarkOffline
    \/ \E p \in ProcIds : StoreExec(p)

SpecTick == InitFresh /\ [][NextTick]_vars

\* The verification over entries that agree and disagree with the store: two
\* clients authenticate under one uuid with different names, one frame at a
\* time, and close, while the timer fires.
IdentityFrames == {Frame("auth", "u1", "Alice", <<>>), Frame("auth", "u1", "Bob", <<>>)}

NextIdentity ==
    \/ \E s \in Sockets : Upgrade(s)
    \/ \E s \in Sockets : ClientClose(s)
    \/ \E s \in Sockets, f \in IdentityFrames : QuietMessageEvent(s, f)
    \/ \E i \in TaskIds : AuthAfterFetchRoles(i)
    \/ \E i \in TaskIds : AuthAfterMarkOnline(i)
    \/ VfFire
    \/ VfAfterFetch
    \/ VfAfterMarkOffline
    \/ \E p \in ProcIds : StoreExec(p)

SpecIdentity == InitFresh /\ [][NextIdentity]_vars

\* Both timers on the clock: the heartbeat fires at every multiple of its period
\* and the verification at time 0 and then at the same instants, whatever the
\* state of the tick or run before, while one client authenticates or closes.
PeriodicHbFire == now = (hb.fired + 1) * tickEveryMs /\ HbFire
PeriodicVfFire == now = vf.fired * tickEveryMs /\ run

NextPeriodic ==
    \/ Upgrade(1)
    \/ ClientClose(1)
    \/ AdvanceTime(tickEveryMs)
    \/ \E f \in HeartbeatFrames : QuietMessageEvent(1, f)
    \/ \E i \in TaskIds : AuthAfterFetchRoles(i)
    \/ \E i \in TaskIds : AuthAfterMarkOnline(i)
    \/ PeriodicHbFire
    \/ HbAfterMarkOffline
    \/ PeriodicVfFire
    \/ VfAfterFetch
    \/ VfAfterMarkOffline
    \/ \E p \in ProcIds : StoreExec(p)

SpecPeriodic == InitFresh /\ [][NextPeriodic]_vars

\* Broadcast requests, with and without the admin key and with every kind of
\* body, while clients connect, authenticate, close, and lose their transport.
BroadcastRequest(key, body) ==
    Answered < MaxAdminRequests /\ onRequest("10.0.0.1", "POST /v1/broadcast", key, body)

NextBroadcast ==
    \/ \E s \in Sockets : Upgrade(s)
    \/ \E s \in Sockets : ClientClose(s)
    \/ \E s \in Sockets : BreakSocket(s)
    \/ \E s \in Sockets, f \in HeartbeatFrames : QuietMessageEvent(s, f)
    \/ \E i \in TaskIds : AuthAfterFetchRoles(i)
    \/ \E i \in TaskIds : AuthAfterMarkOnline(i)
    \/ \E key \in {"changeme", AdminKey}, body \in Bodies : BroadcastRequest(key, body)
    \/ HttpAfterBody
    \/ \E p \in ProcIds : StoreExec(p)

SpecBroadcast == InitFresh /\ [][NextBroadcast]_vars

\* The start time alone: instances of the gateway start, with one commit hash or
\* another, over a key-value store that holds nothing, a value of the old
\* format or a value written for commit abc, and whose calls may fail.
InitStart ==
    /\ InitGateway
    /\ warpKvBound
    /\ rows = [u \in Uuids |-> NoRow]
    /\ startKv \in StartKvAtBoot

NextStart ==
    \/ \E k \in Instances, commit \in Commits : PersistCall(k, commit)
    \/ \E k \in Instances : PersistAfterGetJson(k)
    \/ \E k \in Instances : PersistAfterGetLegacy(k)
    \/ \E k \in Instances : PersistPut(k)
    \/ \E k \in Instances : PersistTouch(k)
    \/ \E k \in Instances : PersistFallback(k)

SpecStart == InitStart /\ [][NextStart]_vars

\* The same run over a presence table that some other writer has filled: the
\* roles column holds a list with no allowed role for u1 and a list with an
\* unknown role, lower case and a repeated role for u2.
ForeignTable ==
    [u \in Uuids |->
        [exists |-> TRUE, online |-> FALSE, name |-> "Unknown", accountType |-> "LOCAL",
         roles |-> IF u = "u1" THEN <<"vip">> ELSE <<"gold", "vip", "GOLD">>]]

InitForeign ==
    /\ InitGateway
    /\ warpKvBound
    /\ rows = ForeignTable
    /\ startKv = NoStart

\* Over that table each frame arrives once the handlers before it are done.
NextForeign ==
    \/ \E s \in Sockets : Upgrade(s)
    \/ \E s \in Sockets : ClientClose(s)
    \/ \E s \in Sockets, f \in FanoutFrames : Quiet /\ FanoutMessageEvent(s, f)
    \/ \E i \in TaskIds : AuthAfterMarkPrevOffline(i)
    \/ \E i \in TaskIds : AuthAfterFetchRoles(i)
    \/ \E i \in TaskIds : AuthAfterMarkOnline(i)
    \/ \E i \in TaskIds : RolesAfterUpdateRoles(i)
    \/ \E p \in ProcIds : StoreExec(p)

SpecForeign == InitForeign /\ [][NextForeign]_vars

\* ===================================================================== claims
MsgTasksOf(s) == {i \in TaskIds : tasks[i].pc # "idle" /\ tasks[i].socket = s}
IsCreated(e) == created[e].socket # 0
CloseHandled(s) == ready[s] = "CLOSED" /\ ~closeQueued[s]

\* C1: every registry entry gets exactly one user.leave for its removal, under
\* every interleaving of close events and in-flight handlers: no entry ever has
\* user.leave broadcast for it twice.
C1_ExactlyOneLeavePerEntry == \A e \in EntryIds : leaves[e] <= 1

\* C2: each insertion of a ConnectionState by an auth handler is followed by
\* exactly one user.join, carrying the uuid, name and accountType the entry was
\* inserted with; no user.join is broadcast, or delivered to any socket, for an
\* identity no insertion gave a registry entry.
C2_OneJoinPerInsertion ==
    /\ \A e \in EntryIds :
          /\ Len(joins[e]) <= 1
          /\ Len(joins[e]) = 1 =>
                /\ IsCreated(e)
                /\ joins[e][1] = UserJoin(created[e].uuid, created[e].name, created[e].accountType)
          /\ (IsCreated(e) /\ ~\E i \in TaskIds : tasks[i].pc = "auth.markOnline" /\ tasks[i].id = e)
                => Len(joins[e]) = 1
    /\ \A s \in Sockets : \A k \in DOMAIN outbox[s] :
          outbox[s][k].type = "user.join" =>
             \E e \in EntryIds :
                /\ IsCreated(e)
                /\ outbox[s][k] = UserJoin(created[e].uuid, created[e].name, created[e].accountType)

\* C2 witness: an auth handler has finished, its one user.join is out, and a
\* second registered socket has received it.
C2_Witness ==
    \E e \in EntryIds : \E s \in Sockets :
        /\ IsCreated(e) /\ Len(joins[e]) = 1
        /\ s # created[e].socket
        /\ \E k \in DOMAIN outbox[s] : outbox[s][k] = joins[e][1]
        /\ \A i \in TaskIds : tasks[i].pc = "idle"

\* C3: an auth never overwrites canonical roles held by the presence store: when
\* the markOnline of an auth handler takes effect on a row that holds a non-empty
\* role set, the row's roles stay as they were.
C3_AuthKeepsCanonicalRoles ==
    [][\A i \in TaskIds :
          LET c == calls[MsgProc(i)] IN
          (/\ c.op = "markOnline" /\ c.st = "pending"
           /\ calls'[MsgProc(i)].st = "ok"
           /\ rows[c.uuid].exists /\ Len(rows[c.uuid].roles) > 0)
          => rows'[c.uuid].roles = rows[c.uuid].roles]_vars

VfPresent == IF vf.pc = "fetch" THEN calls[VfProc].at ELSE vf.snap.present
VfAnswer == IF vf.pc = "fetch" THEN SnapHistory(calls[VfProc]).answer ELSE vf.snap.answer
VfEvictionStarts == vf'.c.pc = "markOffline" /\ vf'.c # vf.c

\* C5: when fetchOnlineUsers fails, the verification tick is skipped: the run
\* resumes from the failed call without evicting a connection, closing a socket
\* or issuing a markOffline.
C5_FailedFetchSkipsTick ==
    [][(vf.pc = "fetch" /\ vf'.pc # "fetch" /\ calls[VfProc].st = "fail")
          => /\ vf'.pc = "idle"
             /\ connections' = connections
             /\ ready' = ready
             /\ leaves' = leaves]_vars

\* C6: a verification tick evicts only connections that were in the registry
\* when the store snapshot was taken.
C6_OnlySnapshotEntriesEvicted ==
    [][VfEvictionStarts => vf'.c.id \in VfPresent]_vars

\* C7: when a verification tick whose fetchOnlineUsers answered the empty list
\* completes, the registry holds none of the entries it held when the snapshot
\* was taken.
C7_EmptyAnswerClearsRegistry ==
    [][(vf.running /\ ~vf'.running /\ VfAnswer = "empty")
          => \A s \in Sockets : connections'[s].id \notin VfPresent]_vars

\* C7 witness: a tick that was answered the empty list while the registry held
\* an entry is over, and a socket was closed with 4403.
C7_Witness ==
    /\ ~vf.running
    /\ vf.snap.answer = "empty"
    /\ vf.snap.present # {}
    /\ \E s \in Sockets : closeCode[s] = CodeVerification /\ connections[s].id = 0

\* The heartbeat tick: the `now` it reads once, and the step in which it stops
\* at an entry to evict it.
HbTickNow == IF hb.ticking THEN hb.now ELSE now
HbEvictionStarts == hb'.c.pc = "markOffline" /\ hb'.c # hb.c
HbTickEnds == ~hb'.ticking /\ (hb.ticking \/ hb'.fired # hb.fired)

\* C8 as stated: whenever the heartbeat removes a registered entry whose
\* last_seen lags now by more than offline_after, it does so with close code 4400.
C8_LaggingRemovedWith4400 ==
    [][(HbEvictionStarts
        /\ HbTickNow - connections[hb'.c.socket].lastSeen > OfflineAfter)
          => hb'.c.code = CodeInactivity]_vars

\* C8 amended: a heartbeat tick that visits an entry removes it for inactivity,
\* code 4400, exactly when its socket is OPEN and its last_seen lags the tick's
\* now by more than offline_after; the socket, if still OPEN when markOffline has
\* returned, is closed with 4400; and a tick that ends leaves no entry of an OPEN
\* socket lagging its now by more than offline_after.
C8_OpenLaggingEvictedWith4400 ==
    [][/\ HbEvictionStarts =>
            LET s == hb'.c.socket IN
            /\ connections'[s].id = 0
            /\ hb'.c.id = connections[s].id
            /\ hb'.c.code = CodeInactivity
                  <=> (ready'[s] = "OPEN"
                       /\ HbTickNow - connections[s].lastSeen > OfflineAfter)
       /\ (hb.c.pc = "markOffline" /\ hb'.c # hb.c /\ hb.c.code = CodeInactivity
           /\ ready[hb.c.socket] = "OPEN")
            => /\ ready'[hb.c.socket] = "CLOSED"
               /\ closeCode'[hb.c.socket] = CodeInactivity
       /\ HbTickEnds =>
            \A s \in Sockets :
                (connections'[s].id # 0 /\ ready'[s] = "OPEN")
                   => HbTickNow - connections'[s].lastSeen <= OfflineAfter]_vars

\* C8 witness: a silent client's entry is gone, its one user.leave is out and its
\* socket was closed with 4400.
C8_Witness ==
    \E s \in Sockets : \E e \in EntryIds :
        /\ closeCode[s] = CodeInactivity /\ ready[s] = "CLOSED"
        /\ connections[s].id = 0
        /\ created[e].socket = s /\ leaves[e] = 1

\* C9: handlers of one socket do not run in parallel: at most one message handler
\* of a socket is in progress (suspended on a store call) at any time.
C9_OneHandlerPerSocket == \A s \in Sockets : Cardinality(MsgTasksOf(s)) <= 1

\* C10: CLOSED is terminal: a socket whose close event has been handled has no
\* registry entry.
C10_ClosedIsTerminal == \A s \in Sockets : CloseHandled(s) => connections[s].id = 0

\* The cleanups in progress: one per close listener, one in each loop.
CleanupProcs == {CloseProc(s) : s \in Sockets} \cup {HbProc, VfProc}
CleanupOf(p) ==
    IF p = HbProc THEN hb.c ELSE IF p = VfProc THEN vf.c ELSE closers[p[2]]
CleanupStarts(p) == CleanupOf(p)'.pc = "markOffline" /\ CleanupOf(p)' # CleanupOf(p)
CleanupResumes(p) == CleanupOf(p).pc = "markOffline" /\ CleanupOf(p)' # CleanupOf(p)

\* C11: an entry leaves the registry for good only through a cleanup (close,
\* heartbeat eviction, verification eviction), which issues one markOffline for
\* the entry's uuid; when that call has returned, failed or not, user.leave is
\* broadcast to every open registered socket and an evicted socket that is
\* still OPEN is closed with the eviction's code.
C11_DestructionMarksOfflineAndLeaves ==
    [][/\ \A s \in Sockets :
            (connections[s].id # 0 /\ connections'[s].id = 0)
               => \E p \in CleanupProcs :
                     /\ CleanupStarts(p)
                     /\ CleanupOf(p)'.id = connections[s].id
                     /\ CleanupOf(p)'.socket = s
       /\ \A p \in CleanupProcs :
            /\ CleanupStarts(p)
                 => /\ connections'[CleanupOf(p)'.socket].id = 0
                    /\ calls'[p] = StartCall("markOffline", CleanupOf(p)'.uuid, NoRec)
            /\ CleanupResumes(p)
                 => LET c == CleanupOf(p) IN
                    /\ calls[p].op = "markOffline"
                    /\ calls[p].st \in {"ok", "fail"}
                    /\ leaves'[c.id] = leaves[c.id] + 1
                    /\ \A s \in Sockets :
                          (connections[s].id # 0 /\ ready[s] = "OPEN" /\ ~sendBroken[s])
                             => /\ Len(outbox'[s]) > Len(outbox[s])
                                /\ outbox'[s][Len(outbox[s]) + 1] = UserLeave(c.uuid)
                    /\ (c.code # 0 /\ ready[c.socket] = "OPEN")
                          => /\ ready'[c.socket] = "CLOSED"
                             /\ closeCode'[c.socket] = c.code]_vars

\* C11 witness: an entry was evicted from an OPEN socket although every store
\* call for its uuid failed (the table has no row for it): its user.leave
\* reached the other registered socket and its socket was closed with the code.
C11_Witness ==
    \E e \in EntryIds : \E s, o \in Sockets :
        /\ created[e].socket = s /\ leaves[e] = 1
        /\ connections[s].id = 0
        /\ closeCode[s] \in {CodeInactivity, CodeVerification}
        /\ ~rows[created[e].uuid].exists
        /\ o # s /\ connections[o].id # 0
        /\ \E k \in DOMAIN outbox[o] : outbox[o][k] = UserLeave(created[e].uuid)
        /\ hb.c.pc = "idle" /\ vf.c.pc = "idle"

\* C12: the last_seen of a registered socket never decreases, whatever frame is
\* handled (auth, re-auth, ping, roles.update, warp.status) or loop ticks, for
\* as long as the socket stays in the registry.
C12_LastSeenMonotonic ==
    [][\A s \in Sockets :
          (connections[s].id # 0 /\ connections'[s].id # 0)
             => connections'[s].lastSeen >= connections[s].lastSeen]_vars

\* C12 witness: a socket registered at time 0 was answered a ping later and its
\* last_seen has moved on.
C12_Witness ==
    \E s \in Sockets :
        /\ connections[s].id # 0 /\ connections[s].connectedAt = 0
        /\ connections[s].lastSeen > 0
        /\ \E k \in DOMAIN outbox[s] : outbox[s][k] = [type |-> "pong"]

RolesUpdateStarts(i) == tasks[i].pc = "idle" /\ tasks'[i].pc = "roles.updateRoles"
RolesUpdateResumes(i) == tasks[i].pc = "roles.updateRoles" /\ tasks'[i].pc = "idle"
Receives(s, frame) ==
    /\ Len(outbox'[s]) = Len(outbox[s]) + 1
    /\ outbox'[s][Len(outbox'[s])] = frame

\* C13: a roles.update carrying ["gold", " member ", "GOLD"] from a registered
\* socket leaves [GOLD, MEMBER] in the socket's entry and passes the same list
\* to update_roles for the entry's uuid; when the store has answered, a
\* user.roles frame with that list goes to every open registered socket, the
\* sender among them.
C13_RolesUpdateFansOut ==
    [][\A i \in TaskIds :
          /\ RolesUpdateStarts(i)
                => LET s == tasks'[i].socket IN
                   /\ connections[s].id # 0
                   /\ connections'[s].roles = <<"GOLD", "MEMBER">>
                   /\ tasks'[i].uuid = connections[s].uuid
                   /\ calls'[MsgProc(i)] =
                         StartCall("updateRoles", connections[s].uuid,
                                   [NoRec EXCEPT !.roles = <<"GOLD", "MEMBER">>])
          /\ RolesUpdateResumes(i)
                => \A s \in Sockets :
                      (connections[s].id # 0 /\ ready[s] = "OPEN" /\ ~sendBroken[s])
                         => Receives(s, [type |-> "user.roles", uuid |-> tasks[i].uuid,
                                         roles |-> <<"GOLD", "MEMBER">>])]_vars

\* C13 witness: two clients are registered and open; the roles.update of one has
\* been stored, and both have received its user.roles frame.
C13_Witness ==
    \E s1, s2 \in Sockets :
        LET frame == [type |-> "user.roles", uuid |-> connections[s1].uuid,
                      roles |-> <<"GOLD", "MEMBER">>]
        IN
        /\ s1 # s2 /\ connections[s1].id # 0 /\ connections[s2].id # 0
        /\ connections[s1].uuid # connections[s2].uuid
        /\ ready[s1] = "OPEN" /\ ready[s2] = "OPEN"
        /\ connections[s1].roles = <<"GOLD", "MEMBER">>
        /\ rows[connections[s1].uuid].roles = <<"GOLD", "MEMBER">>
        /\ \E k \in DOMAIN outbox[s1] : outbox[s1][k] = frame
        /\ \E k \in DOMAIN outbox[s2] : outbox[s2][k] = frame
        /\ Quiet

AuthAnnounces(i) == tasks[i].pc = "auth.markOnline" /\ tasks'[i].pc = "idle"
IsPrefix(a, b) == Len(a) <= Len(b) /\ SubSeq(b, 1, Len(a)) = a

\* C16: what the handler of an auth sends to its own socket arrives in program
\* order: the auth.ok first and, when the socket is in the registry, the
\* user.join of the same auth right after it; and no step ever removes or
\* reorders frames already sent to a socket.
C16_AuthOkBeforeOwnJoin ==
    [][/\ \A s \in Sockets : IsPrefix(outbox[s], outbox'[s])
       /\ \A i \in TaskIds :
             LET t == tasks[i]
                 s == t.socket
                 n == Len(outbox[s])
             IN (AuthAnnounces(i) /\ ready[s] = "OPEN" /\ ~sendBroken[s])
                   => /\ Len(outbox'[s]) = n + (IF connections[s].id # 0 THEN 2 ELSE 1)
                      /\ outbox'[s][n + 1] = AuthOk(t.uuid, t.roles)
                      /\ connections[s].id # 0
                            => outbox'[s][n + 2] = UserJoin(t.uuid, t.name, t.accountType)]_vars

\* C16 witness: a registered socket holds the auth.ok of its auth directly
\* followed by the user.join of the same uuid, after an earlier frame.
C16_Witness ==
    \E s \in Sockets : \E k \in DOMAIN outbox[s] :
        /\ k > 1 /\ k + 1 \in DOMAIN outbox[s]
        /\ connections[s].id # 0
        /\ outbox[s][k] = AuthOk(connections[s].uuid, connections[s].roles)
        /\ outbox[s][k + 1] = UserJoin(connections[s].uuid, connections[s].name,
                                       connections[s].accountType)

\* C17: the roles of every registry entry are a non-empty list without
\* repetition of roles among STAFF, DIAMOND, GOLD and MEMBER, whatever list the
\* presence store holds for the uuid.
C17_EntryRolesWellFormed ==
    \A s \in Sockets :
        connections[s].id # 0 =>
            LET roles == connections[s].roles IN
            /\ Len(roles) > 0
            /\ \A k \in DOMAIN roles : roles[k] \in Range(ALLOWED_ROLES)
            /\ \A j, k \in DOMAIN roles : roles[j] = roles[k] => j = k

\* C17 witness: u2, stored with ["gold", "vip", "GOLD"] and announced by its
\* client as STAFF, is registered with the one role GOLD, while u1, stored
\* with ["vip"], is registered too.
C17_Witness ==
    \E s1, s2 \in Sockets :
        /\ connections[s1].id # 0 /\ connections[s1].uuid = "u1"
        /\ connections[s2].id # 0 /\ connections[s2].uuid = "u2"
        /\ connections[s2].roles = <<"GOLD">>

\* C18: every registry entry was last seen no earlier than it was connected,
\* also the entry a second auth on the same socket puts in place of the first.
C18_SeenSinceConnected ==
    \A s \in Sockets :
        connections[s].id # 0 => connections[s].lastSeen >= connections[s].connectedAt

\* C18 witness: the second entry of a socket, built by a re-auth after time has
\* passed, has been stamped later still.
C18_Witness ==
    \E s \in Sockets :
        /\ connections[s].id = 2 /\ created[1].socket = s
        /\ connections[s].connectedAt > 0
        /\ connections[s].lastSeen > connections[s].connectedAt

\* C19: a frame that is not JSON or that the schema refuses is answered by
\* exactly one error frame INVALID_PAYLOAD on its socket and changes nothing
\* else: the socket stays open, no other socket receives anything, no handler
\* starts, and the registry (membership, roles, last_seen) and the presence
\* store with the calls pending on it stay as they were.
C19_ProtocolErrorOnlyAnswers ==
    [][\A s \in Sockets, f \in InvalidFrames :
          onMessage(s, f)
             => /\ Receives(s, ErrorFrame)
                /\ \A o \in Sockets \ {s} : outbox'[o] = outbox[o]
                /\ ready'[s] = "OPEN"
                /\ UNCHANGED <<ready, closeQueued, closeCode, connections, order,
                               rows, calls, tasks>>]_vars

\* C19 witness: a registered socket, last seen at an earlier time, has been sent
\* the error frame after its auth.ok and user.join; it is open and nothing is
\* in progress.
C19_Witness ==
    \E s \in Sockets :
        /\ connections[s].id # 0 /\ ready[s] = "OPEN"
        /\ connections[s].lastSeen < now
        /\ Len(outbox[s]) = 3 /\ outbox[s][3] = ErrorFrame
        /\ outbox[s][1].type = "auth.ok"
        /\ rows[connections[s].uuid].exists
        /\ Quiet

Listening(s) == connections[s].id # 0 /\ ready[s] = "OPEN" /\ ~sendBroken[s]
LastSent(s, frame) ==
    /\ Len(outbox'[s]) > Len(outbox[s])
    /\ outbox'[s][Len(outbox'[s])] = frame
NoNewError ==
    \A s \in Sockets : \A k \in DOMAIN outbox'[s] :
        k > Len(outbox[s]) => outbox'[s][k].type # "error"

\* C20: when the presence call a frame's handler was waiting for has failed, the
\* handler goes on as after a success and no error frame is sent to anyone:
\* after mark_offline of the previous identity the user.leave is broadcast and
\* the roles are fetched; after fetch_roles the entry is registered with the
\* client's roles, or MEMBER when it gave none, and mark_online is issued; after
\* mark_online the auth.ok and the user.join are sent; after update_last_seen
\* the pong; after update_roles the user.roles broadcast.
C20_StoreFailureNotSurfaced ==
    [][\A i \in TaskIds :
          LET t == tasks[i]
              s == t.socket
              n == Len(outbox[s])
          IN (calls[MsgProc(i)].st = "fail" /\ tasks'[i] # t)
                => /\ NoNewError
                   /\ t.pc = "auth.markPrevOffline"
                         => /\ tasks'[i].pc = "auth.fetchRoles"
                            /\ calls'[MsgProc(i)] = StartCall("fetchRoles", t.uuid, NoRec)
                            /\ \A o \in Sockets :
                                  Listening(o) => Receives(o, UserLeave(t.prevUuid))
                   /\ t.pc = "auth.fetchRoles"
                         => /\ connections'[s].id # 0
                            /\ connections'[s].uuid = t.uuid
                            /\ connections'[s].roles =
                                  (IF t.roles # <<>> THEN t.roles ELSE <<"MEMBER">>)
                            /\ tasks'[i].pc = "auth.markOnline"
                            /\ calls'[MsgProc(i)].op = "markOnline"
                            /\ calls'[MsgProc(i)].st = "pending"
                   /\ t.pc = "auth.markOnline"
                         => /\ tasks'[i].pc = "idle"
                            /\ (ready[s] = "OPEN" /\ ~sendBroken[s])
                                  => /\ Len(outbox'[s]) > n
                                     /\ outbox'[s][n + 1] = AuthOk(t.uuid, t.roles)
                            /\ \A o \in Sockets :
                                  Listening(o)
                                     => LastSent(o, UserJoin(t.uuid, t.name, t.accountType))
                   /\ t.pc = "ping.updateLastSeen"
                         => /\ tasks'[i].pc = "idle"
                            /\ (ready[s] = "OPEN" /\ ~sendBroken[s])
                                  => Receives(s, [type |-> "pong"])
                   /\ t.pc = "roles.updateRoles"
                         => /\ tasks'[i].pc = "idle"
                            /\ \A o \in Sockets :
                                  Listening(o)
                                     => Receives(o, [type |-> "user.roles", uuid |-> t.uuid,
                                                     roles |-> t.roles])]_vars

\* C20 witness: a client authenticated as u1, then as u2, then pinged; the store
\* holds no row for either uuid, so every mark_online and mark_offline failed;
\* the client is registered as u2 and has received the auth.ok of both, the
\* user.leave of u1 and the pong, and nobody was sent an error frame.
C20_Witness ==
    \E s \in Sockets :
        /\ ~rows["u1"].exists /\ ~rows["u2"].exists
        /\ created[1].socket = s /\ created[1].uuid = "u1"
        /\ connections[s].id = 2 /\ connections[s].uuid = "u2"
        /\ \E k \in DOMAIN outbox[s] : outbox[s][k] = AuthOk("u1", <<"MEMBER">>)
        /\ \E k \in DOMAIN outbox[s] : outbox[s][k] = UserLeave("u1")
        /\ \E k \in DOMAIN outbox[s] : outbox[s][k] = AuthOk("u2", <<"STAFF">>)
        /\ \E k \in DOMAIN outbox[s] : outbox[s][k] = [type |-> "pong"]
        /\ \A o \in Sockets : \A k \in DOMAIN outbox[o] : outbox[o][k].type # "error"
        /\ Quiet

\* The answers given to the requests of one address that went through the
\* limiter (a preflight request does not), in order.
Limited(addr) ==
    SelectSeq(responses, LAMBDA e : e.addr = addr /\ e.route # "OPTIONS")
InFirstWindow(L, k) == L[k].at <= L[1].at + RateLimitWindow

\* C14: of the first max+1 requests of an address, all made before its first
\* window has run out, the first max are let through and the last is answered
\* 429; the first request made after the window has run out is let through
\* and leaves a bucket with count 1 whose window starts at that request.
C14_FixedWindowLimiter ==
    \A addr \in Addrs :
        LET L == Limited(addr) IN
        /\ (Len(L) > RateLimitMax /\ InFirstWindow(L, RateLimitMax + 1))
              => /\ \A k \in 1..RateLimitMax : L[k].status # 429
                 /\ L[RateLimitMax + 1].status = 429
        /\ \A k \in 2..Len(L) :
              (InFirstWindow(L, k - 1) /\ ~InFirstWindow(L, k))
                 => /\ L[k].status # 429
                    /\ k = Len(L)
                          => rateLimitState[addr] =
                                [count |-> 1, resetAt |-> L[k].at + RateLimitWindow]

\* C14 witness: an address made max+1 requests, the last of them at the very
\* end of its window and answered 429, and one more after the window, which
\* was let through and restarted the count.
C14_Witness ==
    \E addr \in Addrs :
        LET L == Limited(addr) IN
        /\ Len(L) = RateLimitMax + 2
        /\ L[RateLimitMax + 1].at = L[1].at + RateLimitWindow
        /\ L[RateLimitMax + 1].status = 429
        /\ ~InFirstWindow(L, RateLimitMax + 2)
        /\ L[RateLimitMax + 2].status # 429
        /\ rateLimitState[addr].count = 1

\* The step answers a request to an admin endpoint that carried no x-admin-key
\* or another key than the configured one.
RefusedAdminAnswer ==
    /\ Len(responses') = Len(responses) + 1
    /\ responses'[Len(responses')].route \in AdminRoutes
    /\ responses'[Len(responses')].key # AdminKey
BucketFull(addr) ==
    /\ rateLimitState[addr].count >= RateLimitMax
    /\ rateLimitState[addr].resetAt >= now
NoSideEffect == UNCHANGED <<outbox, connections, order, rows, calls, ready>>

\* C15 as stated: a request to an admin endpoint without the matching key is
\* answered 401, and no frame is sent, no presence call is made and the
\* registry stays as it is.
C15_UnauthorizedIs401 ==
    [][RefusedAdminAnswer
          => /\ responses'[Len(responses')].status = 401
             /\ NoSideEffect]_vars

\* C15 amended: such a request is answered 429 when the bucket of its address
\* is full and 401 otherwise; in both cases no frame is sent, no presence call
\* is made and the registry stays as it is.
C15_UnauthorizedIs401Or429 ==
    [][RefusedAdminAnswer
          => /\ responses'[Len(responses')].status =
                   (IF BucketFull(responses'[Len(responses')].addr) THEN 429 ELSE 401)
             /\ NoSideEffect]_vars

\* C15 witness: with a client registered, a broadcast request with a wrong key
\* was answered 401 and a later one 429, and the client has received nothing
\* but the frames of its own auth.
C15_Witness ==
    /\ Len(responses) = RateLimitMax + 1
    /\ responses[1].route = "POST /v1/broadcast" /\ responses[1].key = "changeme"
    /\ responses[1].status = 401
    /\ responses[RateLimitMax + 1].route = "POST /v1/broadcast"
    /\ responses[RateLimitMax + 1].key = "changeme"
    /\ responses[RateLimitMax + 1].status = 429
    /\ \E s \in Sockets :
          /\ connections[s].id = 1 /\ ready[s] = "OPEN"
          /\ Len(outbox[s]) = 2
          /\ created[1].socket = s

AuthStarts(i) ==
    tasks[i].pc = "idle" /\ tasks'[i].pc \in {"auth.markPrevOffline", "auth.fetchRoles"}
Count(seq, x) == Cardinality({k \in DOMAIN seq : seq[k] = x})

\* C21: an auth on a socket registered under another uuid first issues
\* mark_offline for the previous uuid, the entry staying as it is; when the
\* store has answered, user.leave for the previous uuid is broadcast, still
\* with the old entry in place and nothing else sent; only then are the roles
\* fetched and the new entry inserted, after which the socket is in the
\* registry once, under the new uuid; auth.ok and user.join follow from there.
C21_LeaveBeforeNewIdentity ==
    [][\A i \in TaskIds :
          LET t == tasks[i]
              s == tasks'[i].socket
          IN
          /\ (AuthStarts(i) /\ connections[s].id # 0
                 /\ connections[s].uuid # tasks'[i].uuid)
                => /\ tasks'[i].pc = "auth.markPrevOffline"
                   /\ calls'[MsgProc(i)] = StartCall("markOffline", connections[s].uuid, NoRec)
                   /\ UNCHANGED <<connections, order, outbox>>
          /\ (t.pc = "auth.markPrevOffline" /\ tasks'[i] # t)
                => /\ tasks'[i].pc = "auth.fetchRoles"
                   /\ calls'[MsgProc(i)] = StartCall("fetchRoles", t.uuid, NoRec)
                   /\ UNCHANGED <<connections, order>>
                   /\ leaves'[t.prevId] = leaves[t.prevId] + 1
                   /\ \A o \in Sockets :
                         IF Listening(o) THEN Receives(o, UserLeave(t.prevUuid))
                         ELSE outbox'[o] = outbox[o]
          /\ (t.pc = "auth.fetchRoles" /\ tasks'[i] # t)
                => /\ tasks'[i].pc = "auth.markOnline"
                   /\ t.prevId # 0 => leaves[t.prevId] >= 1
                   /\ connections'[t.socket].uuid = t.uuid
                   /\ Count(order', t.socket) = 1
                   /\ UNCHANGED outbox]_vars

\* C21 witness: a client registered as u1 has authenticated again as u2; its
\* socket, registered under u2 alone, received the user.leave of u1 before the
\* auth.ok of u2.
C21_Witness ==
    \E s \in Sockets : \E j, k \in DOMAIN outbox[s] :
        /\ created[1].socket = s /\ created[1].uuid = "u1"
        /\ connections[s].id = 2 /\ connections[s].uuid = "u2"
        /\ order = <<s>>
        /\ j < k
        /\ outbox[s][j] = UserLeave("u1")
        /\ outbox[s][k] = AuthOk("u2", connections[s].roles)
        /\ leaves[1] = 1
        /\ Quiet

SameIdentity(s, uuid) == connections[s].id # 0 /\ connections[s].uuid = uuid

\* C22: an auth on a socket registered under the same uuid goes straight to
\* fetch_roles: no mark_offline is issued and no user.leave is sent at any of
\* its steps; it puts a fresh entry in place of the old one, issues
\* mark_online, and then sends a fresh auth.ok to the socket and a fresh
\* user.join to every open registered socket.
C22_SameUuidReauthRejoins ==
    [][\A i \in TaskIds :
          LET t == tasks[i]
              s == tasks'[i].socket
          IN
          /\ (AuthStarts(i) /\ SameIdentity(s, tasks'[i].uuid))
                => /\ tasks'[i].pc = "auth.fetchRoles"
                   /\ tasks'[i].prevUuid = ""
                   /\ calls'[MsgProc(i)] = StartCall("fetchRoles", tasks'[i].uuid, NoRec)
                   /\ UNCHANGED <<connections, order, outbox, leaves>>
          /\ (t.pc = "auth.fetchRoles" /\ tasks'[i] # t /\ SameIdentity(t.socket, t.uuid))
                => /\ connections'[t.socket].id # connections[t.socket].id
                   /\ connections'[t.socket].uuid = t.uuid
                   /\ calls'[MsgProc(i)].op = "markOnline"
                   /\ UNCHANGED <<outbox, leaves>>
          /\ (t.pc = "auth.markOnline" /\ tasks'[i] # t /\ t.prevUuid = "")
                => /\ tasks'[i].pc = "idle"
                   /\ UNCHANGED leaves
                   /\ joins'[t.id] = Append(joins[t.id], UserJoin(t.uuid, t.name, t.accountType))
                   /\ \A o \in Sockets :
                         /\ \A k \in DOMAIN outbox'[o] :
                               k > Len(outbox[o]) => outbox'[o][k].type # "user.leave"
                         /\ Listening(o)
                               => LastSent(o, UserJoin(t.uuid, t.name, t.accountType))
                   /\ (ready[t.socket] = "OPEN" /\ ~sendBroken[t.socket])
                         => /\ Len(outbox'[t.socket]) > Len(outbox[t.socket])
                            /\ outbox'[t.socket][Len(outbox[t.socket]) + 1]
                                  = AuthOk(t.uuid, t.roles)]_vars

\* C22 witness: a client authenticated twice as u1 on one socket; the socket
\* holds its second entry and has received auth.ok and user.join twice each,
\* nobody was told that u1 left, and the store has u1 online.
C22_Witness ==
    \E s \in Sockets :
        /\ created[1].socket = s /\ created[1].uuid = "u1"
        /\ created[2].socket = s /\ created[2].uuid = "u1"
        /\ connections[s].id = 2
        /\ Len(outbox[s]) = 4
        /\ outbox[s][1].type = "auth.ok" /\ outbox[s][2].type = "user.join"
        /\ outbox[s][3].type = "auth.ok" /\ outbox[s][4].type = "user.join"
        /\ \A e \in EntryIds : leaves[e] = 0
        /\ rows["u1"].exists /\ rows["u1"].online
        /\ Quiet

\* C23: a ping or roles.update handler that resumes from its presence call
\* when the entry of its socket is gone sends no frame to anyone and leaves the
\* registry as it is.
C23_VanishedEntryAbortsSilently ==
    [][\A i \in TaskIds :
          LET t == tasks[i] IN
          (/\ t.pc \in {"ping.updateLastSeen", "roles.updateRoles"}
           /\ tasks'[i] # t
           /\ connections[t.socket].id = 0)
             => UNCHANGED <<outbox, connections, order>>]_vars

\* C24: neither a WebSocket upgrade nor a GET /v1/health request touches the
\* rate limiter: the step that accepts an upgrade, and the step that takes in a
\* health request, leave every bucket as it is, and no health request is
\* answered 429.
C24_LimiterSparesHealthAndUpgrade ==
    [][/\ (\E s \in Sockets : ready[s] = "NONE" /\ ready'[s] = "OPEN")
             => UNCHANGED <<rateLimitState, responses>>
       /\ (http.pc = "idle" /\ http'.pc = "health.count")
             => UNCHANGED rateLimitState
       /\ (/\ Len(responses') > Len(responses)
           /\ responses'[Len(responses')].route = "GET /v1/health")
             => responses'[Len(responses')].status # 429]_vars

\* C25: the persisted start time is first-writer-wins per commit hash.  While
\* every call so far carries the same commit hash and no key-value call has
\* failed, all the calls that have returned have returned the same value, and
\* that value is the one stored under health:started_at.
C25_FirstWriterWins ==
    \A k1, k2 \in Instances :
        (/\ persist[k1].pc = "done" /\ persist[k2].pc = "done"
         /\ \A k \in Instances :
               persist[k].pc # "idle" =>
                   ~persist[k].threw /\ persist[k].commitHash = persist[k1].commitHash)
            => /\ persist[k1].result = persist[k2].result
               /\ startKv.format = "json"
               /\ startKv.commitHash = persist[k1].commitHash
               /\ startKv.startedAtMs = persist[k1].result

\* C26 as stated: an authorized POST /v1/broadcast is answered 200 or 400; when
\* its body is JSON with a string type other than "", the frame
\* {type, ...payload} goes to every registered open socket and the answer is
\* 200; otherwise the answer is 400 and no frame is sent.
BroadcastAnswer ==
    /\ Len(responses') = Len(responses) + 1
    /\ responses'[Len(responses')].route = "POST /v1/broadcast"
    /\ responses'[Len(responses')].key = AdminKey
BroadcastDelivered(status) ==
    /\ status = 200
    /\ \A s \in Sockets :
          IF Listening(s)
          THEN outbox'[s] = Append(outbox[s], Spread(http.body.type, http.body.payload))
          ELSE outbox'[s] = outbox[s]
C26_BroadcastDeliversOr400 ==
    [][BroadcastAnswer =>
          LET status == responses'[Len(responses')].status IN
          /\ http.pc = "broadcast.body" /\ http'.pc = "idle"
          /\ IF http.body.json /\ http.body.typed /\ http.body.type # ""
             THEN BroadcastDelivered(status)
             ELSE status = 400 /\ UNCHANGED outbox]_vars

\* C26, amended: an authorized POST /v1/broadcast is answered 429, with no frame
\* sent, when the address has used up its window; otherwise, when its body is
\* JSON with a string type that has a character other than white space, the
\* frame {type, ...payload} goes to every registered open socket and the answer
\* is 200; otherwise the answer is 400 and no frame is sent.
C26_BroadcastDeliversOr400Or429 ==
    [][BroadcastAnswer =>
          LET status == responses'[Len(responses')].status IN
          IF http' = http
          THEN status = 429 /\ BucketFull(responses'[Len(responses')].addr) /\ UNCHANGED outbox
          ELSE IF http.body.json /\ http.body.typed /\ ~Blank(http.body.type)
               THEN BroadcastDelivered(status)
               ELSE status = 400 /\ UNCHANGED outbox]_vars

\* Both sockets are registered and open, and both have received the banner
\* {type: banner, text: hi} of a request answered 200; a request with a type
\* of white space has been answered 400.
C26_Witness ==
    /\ \A s \in Sockets :
          /\ Listening(s)
          /\ \E k \in DOMAIN outbox[s] : outbox[s][k] = [type |-> "banner", text |-> "hi"]
    /\ \E k \in DOMAIN responses :
          responses[k].route = "POST /v1/broadcast" /\ responses[k].status = 200
    /\ \E k \in DOMAIN responses :
          /\ responses[k].key = AdminKey
          /\ responses[k].status = 400

\* C27: the fan-out of a broadcast is isolated from failures.  In every step
\* that sends a banner or a user.join, each registered socket that is OPEN and
\* whose send works receives the frame exactly once, whatever happens to the
\* sends to the other sockets, and every other socket receives no copy of it.
NewFrames(s) == SubSeq(outbox'[s], Len(outbox[s]) + 1, Len(outbox'[s]))
NewBroadcasts ==
    {f \in UNION {Range(NewFrames(s)) : s \in Sockets} : f.type # "auth.ok"}
        \cup (IF /\ http.pc = "broadcast.body" /\ Len(responses') > Len(responses)
                 /\ responses'[Len(responses')].status = 200
              THEN {Spread(http.body.type, http.body.payload)}
              ELSE {})
C27_FanoutIsolatesFailures ==
    [][\A frame \in NewBroadcasts : \A s \in Sockets :
          Count(NewFrames(s), frame) =
              IF connections'[s].id # 0 /\ ready[s] = "OPEN" /\ ~sendBroken[s] THEN 1 ELSE 0]_vars

\* Socket 1 entered the registry first, is OPEN and its send throws; socket 2
\* holds a banner that socket 1 never received.
C27_Witness ==
    /\ order = <<1, 2>>
    /\ ready[1] = "OPEN" /\ sendBroken[1]
    /\ \E k \in DOMAIN outbox[2] : outbox[2][k].type = "banner"
    /\ \A k \in DOMAIN outbox[1] : outbox[1][k].type # "banner"

\* C28: a heartbeat tick gives each entry it visits exactly one outcome, by
\* priority: socket not OPEN, eviction with 4001; else inactive for more than
\* offlineAfter, eviction with 4400; else keepalive due: server.keepalive is
\* sent once and lastKeepAliveAt becomes the tick's now, or, when the send
\* throws, eviction with 4401 and no stamp; else the entry stays as it is and
\* no keepalive is sent.  An eviction suspends the tick, so the entries visited
\* in a step are those from the iterator's position up to the first eviction.
\* The socket whose eviction the tick was suspended in is closed by then, even
\* if an auth has registered it again in the meantime.
TickRuns ==
    \/ ~hb.ticking /\ hb'.fired > hb.fired
    \/ hb.ticking /\ hb' # hb /\ hb'.fired = hb.fired
TickNow == IF hb.ticking THEN hb.now ELSE now
TickOutcome(s) ==
    IF ready[s] # "OPEN" \/ (hb.ticking /\ hb.c.socket = s) THEN CodeSocketNotOpen
    ELSE IF TickNow - connections[s].lastSeen > OfflineAfter THEN CodeInactivity
    ELSE IF TickNow - connections[s].lastKeepAliveAt >= tickEveryMs - KeepAliveSlack
    THEN (IF sendBroken[s] THEN CodeKeepaliveFailed ELSE 1)
    ELSE 0
TickPending == SubSeq(order, (IF hb.ticking THEN cursor.hb ELSE 0) + 1, Len(order))
TickVisits(k) == \A j \in 1..(k - 1) : TickOutcome(TickPending[j]) \in {0, 1}
C28_TickOutcomeByPriority ==
    [][TickRuns =>
          \A k \in DOMAIN TickPending :
              LET s == TickPending[k] IN
              TickVisits(k) =>
                  CASE TickOutcome(s) = 0 ->
                         /\ connections'[s] = connections[s]
                         /\ Count(NewFrames(s), KeepAlive) = 0
                    [] TickOutcome(s) = 1 ->
                         /\ connections'[s] = [connections[s] EXCEPT !.lastKeepAliveAt = TickNow]
                         /\ Count(NewFrames(s), KeepAlive) = 1
                    [] OTHER ->
                         /\ connections'[s].id = 0
                         /\ hb'.c.socket = s /\ hb'.c.code = TickOutcome(s)
                         /\ hb'.c.uuid = connections[s].uuid
                         /\ Count(NewFrames(s), KeepAlive) = 0]_vars

\* A tick has evicted a socket with 4401: its send threw when the keepalive was
\* due; the other socket, visited before it, holds a keepalive.
C28_Witness ==
    /\ hb.c.pc = "markOffline" /\ hb.c.code = CodeKeepaliveFailed
    /\ \E s \in Sockets :
          /\ connections[s].id # 0
          /\ connections[s].lastKeepAliveAt = hb.now
          /\ \E k \in DOMAIN outbox[s] : outbox[s][k] = KeepAlive

\* C29: each background loop is single-flight.  A timer that fires while a tick
\* (a run) is in progress counts the firing and does nothing else: the tick in
\* progress, its store call, the registry and the sockets stay as they are.  A
\* tick is in progress exactly while it is suspended on a store call, and the
\* guard is down again as soon as its loop has reached the end of the registry.
LoopState == <<connections, order, cursor, outbox, ready, closeCode, calls, rows>>
C29_LoopsAreSingleFlight ==
    [][/\ (hb.ticking /\ hb'.fired > hb.fired)
            => hb' = [hb EXCEPT !.fired = @ + 1] /\ UNCHANGED <<LoopState, vf>>
       /\ (vf.running /\ vf'.fired > vf.fired)
            => vf' = [vf EXCEPT !.fired = @ + 1] /\ UNCHANGED <<LoopState, hb>>
       /\ hb'.ticking = (hb'.c.pc = "markOffline")
       /\ hb'.ticking = (calls'[HbProc] # NoCall)
       /\ vf'.running = (vf'.pc # "idle")
       /\ vf'.running = (calls'[VfProc] # NoCall)]_vars

\* The tick that began at the first firing is still suspended in an eviction
\* when the clock has reached the second firing, which has been counted; the
\* first run is still waiting for the online users (no answer has ever come)
\* and a second firing of its timer has been counted.
C29_Witness ==
    /\ hb.ticking /\ hb.now = tickEveryMs /\ now >= 2 * tickEveryMs /\ hb.fired = 2
    /\ vf.running /\ vf.pc = "fetch" /\ vf.snap = NoSnap /\ vf.fired >= 2

\* C30: a verification run whose snapshot was fetched gives each OPEN
\* connection it visits exactly one outcome: no online record for its uuid in
\* the snapshot, eviction with 4403 and reason verification_d1_offline; else a
\* record with another name or account type, eviction with 4403 and reason
\* verification_identity_mismatch; else one server.verify frame with the
\* entry's uuid and lastSeen, the entry staying as it is.  An eviction suspends
\* the run, so the entries visited in a step are those from the iterator's
\* position up to the first eviction.
RunLoops ==
    /\ vf.pc \in {"fetch", "cleanup"}
    /\ vf' # vf /\ vf'.fired = vf.fired
    /\ IF vf.pc = "fetch" THEN calls[VfProc].st = "ok" ELSE vf.snap.answer # "fail"
RunSnapshot == IF vf.pc = "fetch" THEN calls[VfProc].res ELSE vf.byUuid
RunOutcome(s) ==
    LET row == RunSnapshot[connections[s].uuid] IN
    IF ready[s] # "OPEN" \/ (vf.pc = "cleanup" /\ vf.c.socket = s) THEN "closed"
    ELSE IF ~row.exists \/ ~row.online THEN "verification_d1_offline"
    ELSE IF row.name # connections[s].name \/ row.accountType # connections[s].accountType
    THEN "verification_identity_mismatch"
    ELSE "verified"
RunPending == SubSeq(order, (IF vf.pc = "fetch" THEN 0 ELSE cursor.vf) + 1, Len(order))
RunVisits(k) == \A j \in 1..(k - 1) : RunOutcome(RunPending[j]) = "verified"
C30_VerificationOutcome ==
    [][RunLoops =>
          \A k \in DOMAIN RunPending :
              LET s == RunPending[k]
                  verify == ServerVerify(connections[s])
              IN (RunVisits(k) /\ RunOutcome(s) # "closed") =>
                    IF RunOutcome(s) = "verified"
                    THEN /\ connections'[s] = connections[s]
                         /\ Count(NewFrames(s), verify) = (IF sendBroken[s] THEN 0 ELSE 1)
                         /\ vf'.c.socket # s
                    ELSE /\ connections'[s].id = 0
                         /\ vf'.c.socket = s /\ vf'.c.code = CodeVerification
                         /\ vf'.c.reason = RunOutcome(s)
                         /\ vf'.c.uuid = connections[s].uuid
                         /\ \A j \in DOMAIN NewFrames(s) : NewFrames(s)[j].type # "server.verify"]_vars

\* A run has sent server.verify to the socket registered as Bob, whose name is
\* the one in the store, and is evicting the socket registered as Alice under
\* the same uuid for an identity mismatch.
C30_Witness ==
    /\ vf.pc = "cleanup"
    /\ vf.c.reason = "verification_identity_mismatch"
    /\ \E s \in Sockets :
          /\ connections[s].id # 0
          /\ \E k \in DOMAIN outbox[s] : outbox[s][k] = ServerVerify(connections[s])

\* C31: a ping from a registered socket stamps the entry (lastSeen = now,
\* isAlive) and issues one updateLastSeen for the entry's uuid, sending nothing
\* yet; when the store has answered, with success or with failure, the socket,
\* if it is still OPEN, receives exactly one pong and no other socket receives
\* anything, and the handler makes no further call.
PingStarts(i) == tasks[i].pc = "idle" /\ tasks'[i].pc = "ping.updateLastSeen"
PingResumes(i) == tasks[i].pc = "ping.updateLastSeen" /\ tasks'[i] # tasks[i]
C31_PingStampsAndPongs ==
    [][/\ \A s \in Sockets :
            (onMessage(s, PingFrame) /\ connections[s].id # 0)
               => \E i \in TaskIds : PingStarts(i) /\ tasks'[i].socket = s
       /\ \A i \in TaskIds :
            /\ PingStarts(i) =>
                  LET s == tasks'[i].socket IN
                  /\ connections'[s] = [connections[s] EXCEPT !.lastSeen = now, !.isAlive = TRUE]
                  /\ calls'[MsgProc(i)] = StartCall("updateLastSeen", connections[s].uuid, NoRec)
                  /\ \A j \in TaskIds \ {i} : tasks'[j] = tasks[j]
                  /\ UNCHANGED outbox
            /\ PingResumes(i) =>
                  LET s == tasks[i].socket IN
                  /\ calls[MsgProc(i)].st \in {"ok", "fail"}
                  /\ tasks'[i].pc = "idle" /\ calls'[MsgProc(i)] = NoCall
                  /\ NewFrames(s) = IF ready[s] = "OPEN" /\ ~sendBroken[s]
                                    THEN <<[type |-> "pong"]>> ELSE <<>>
                  /\ \A r \in Sockets \ {s} : outbox'[r] = outbox[r]]_vars

\* A registered socket that pinged after time had passed since its auth holds
\* a pong as its last frame, and its entry is stamped with the present time.
C31_Witness ==
    \E s \in Sockets :
        /\ connections[s].id # 0 /\ connections[s].isAlive
        /\ connections[s].lastSeen = now /\ now > connections[s].connectedAt
        /\ Len(outbox[s]) > 0 /\ outbox[s][Len(outbox[s])] = [type |-> "pong"]
        /\ Quiet

\* C32: the answer to an authorized GET /v1/connected-users is 200; when
\* fetchOnlineUsers failed, `connections` is the number of registry entries and
\* `users` holds exactly one user for each uuid of the registry, projected from
\* an entry of that uuid whose lastSeen no other entry of the uuid exceeds; when
\* the call succeeded, `users` is the store's list and `connections` its length.
Registered == {s \in Sockets : connections[s].id # 0}
UsersAnswered == http.pc = "users.fetch" /\ http'.pc = "idle"
SharesUuid(c) == \E s \in Sockets : connections'[s].id # 0 /\ connections'[s].uuid = c.uuid
C33_SiblingEvicted ==
    /\ vf.pc = "cleanup" /\ vf.c.reason = "verification_d1_offline"
    /\ \E s \in Sockets :
          /\ vf.c.socket = s /\ ready[s] = "OPEN"
          /\ \E o \in Sockets \ {s} :
                /\ ready[o] = "CLOSED" /\ leaves[1] + leaves[2] = 1
                /\ UserLeave(vf.c.uuid) \in Range(outbox[s])

\* C34: presence converges after a removal: an update_last_seen that the store
\* runs for a uuid whose record is offline and that no entry of the registry
\* carries (the call of a ping handler that raced the removal, landing after
\* mark_offline) leaves the record offline.
Carried(u) == \E s \in Sockets : connections[s].id # 0 /\ connections[s].uuid = u
Lands(p, op) == calls[p].op = op /\ calls[p].st = "pending" /\ calls'[p].st = "ok"
C35_ClosedEventuallyAbsent ==
    \A s \in Sockets : (ready[s] = "CLOSED") ~> (connections[s].id = 0)

\* The heartbeat is removing the entry of a closed socket whose close event had
\* already been handled, finding no entry: the entry was inserted afterwards.
C35_Witness ==
    \E s \in Sockets :
        /\ hb.c.pc = "markOffline" /\ hb.c.socket = s /\ hb.c.code = CodeSocketNotOpen
        /\ ready[s] = "CLOSED" /\ ~closeQueued[s] /\ closers[s] = IdleCleanup

\* C36: a broadcast frame (user.join, user.leave, user.roles, or a frame of the
\* admin broadcast) reaches a socket only while the registry holds an entry for
\* it, and the user.leave that a cleanup broadcasts does not reach the socket
\* the cleanup is removing.
ReplyTypes == {"auth.ok", "pong", "error", "server.keepalive", "server.verify"}
IsBroadcast(frame) == frame.type \notin ReplyTypes
ReachesRegisteredOnly ==
    \A s \in Sockets : \A k \in DOMAIN NewFrames(s) :
        IsBroadcast(NewFrames(s)[k]) => connections[s].id # 0
NoLeaveToRemoved ==
    \A p \in CleanupProcs :
        CleanupResumes(p) =>
           UserLeave(CleanupOf(p).uuid) \notin Range(NewFrames(CleanupOf(p).socket))
C36_BroadcastsReachRegisteredOnly ==
    [][ReachesRegisteredOnly /\ NoLeaveToRemoved]_vars

\* C37: a valid ping, roles.update or warp.status frame from a socket without a
\* registry entry changes nothing: no frame is sent to anyone, no store or
\* key/value call is issued, no handler is left suspended and the registry
\* stays as it was; an entry appears for a socket only when an auth handler of
\* that socket resumes from fetch_roles.
EntrylessFrames == {PingFrame, RolesUpdateFrame, WarpStatusFrame}
HandlerStepOf(s) ==
    \/ \E f \in SilentFrames : SchemaOk(f) /\ onMessage(s, f)
    \/ \E i \in TaskIds : tasks[i].pc # "idle" /\ tasks[i].socket = s /\ tasks'[i] # tasks[i]
C38_OnlyClientFramesAdvanceLiveness ==
    [][/\ \A s \in Sockets :
            (/\ connections[s].id # 0 /\ connections'[s].id = connections[s].id
             /\ connections'[s].lastSeen # connections[s].lastSeen)
               => HandlerStepOf(s)
       /\ \A s \in Sockets, f \in SilentFrames :
            (onMessage(s, f) /\ ~SchemaOk(f)) => connections' = connections
       /\ TickRuns =>
            \A k \in DOMAIN TickPending :
                LET s == TickPending[k] IN
                (TickVisits(k) /\ TickOutcome(s) = CodeInactivity)
                   => /\ connections'[s].id = 0
                      /\ hb'.c.socket = s /\ hb'.c.code = CodeInactivity]_vars

\* A client is being evicted for inactivity: since its auth it has sent only a
\* frame that was refused, and it was sent a keepalive and a verification.
C38_Witness ==
    /\ hb.c.pc = "markOffline" /\ hb.c.code = CodeInactivity
    /\ LET sent == outbox[hb.c.socket]
       IN /\ KeepAlive \in Range(sent)
          /\ ErrorFrame \in Range(sent)
          /\ \E k \in DOMAIN sent : sent[k].type = "server.verify"

\* C39: every bucket the limiter holds has a count from 1 to the maximum; a
\* request that is answered 429 changes no bucket; and a request changes no
\* bucket but the one of its own address, `unknown` when it has none.
C39_BucketsStayInRange ==
    [][/\ \A addr \in Addrs :
            rateLimitState'[addr] # NoBucket
               => /\ 1 <= rateLimitState'[addr].count
                  /\ rateLimitState'[addr].count <= RateLimitMax
       /\ Len(responses') > Len(responses) =>
            LET r == responses'[Len(responses')] IN
            /\ r.status = 429 => rateLimitState' = rateLimitState
            /\ \A other \in Addrs \ {r.addr} :
                  rateLimitState'[other] = rateLimitState[other]]_vars

\* A request without a resolvable address was answered 429 inside the window of
\* the bucket `unknown`, which is full; the other address has made one request.
C39_Witness ==
    /\ rateLimitState["unknown"].count = RateLimitMax
    /\ rateLimitState["unknown"].resetAt >= now
    /\ rateLimitState["10.0.0.1"].count = 1
    /\ Len(responses) > 0
    /\ LET r == responses[Len(responses)]
       IN r.addr = "unknown" /\ r.status = 429 /\ r.at = now

\* C40: every record of the coordinator's Map has at least one role; an online
\* event whose roles normalise to nothing stores [MEMBER]; an offline event for
\* a uuid the Map does not hold stores a stub with [MEMBER]; a roles event
\* whose list normalises to nothing leaves the record's roles as they are; and
\* a seen or roles event for a uuid the Map does not hold creates no record.
C40_RecordsKeepARole ==
    [][/\ \A u \in Uuids : users'[u].exists => Len(users'[u].roles) > 0
       /\ \A data \in Events :
            (PostEvent(data) /\ data.uuid # "") =>
               LET u == data.uuid
                   empty == normalizeRoles(data.roles) = <<>>
               IN /\ (data.type = "online" /\ empty)
                       => users'[u].exists /\ users'[u].roles = <<DEFAULT_ROLE>>
                  /\ (data.type = "offline" /\ ~users[u].exists)
                       => /\ users'[u].exists /\ ~users'[u].online
                          /\ users'[u].roles = <<DEFAULT_ROLE>>
                  /\ (data.type = "roles" /\ empty) => users'[u].roles = users[u].roles
                  /\ (data.type \in {"seen", "roles"} /\ ~users[u].exists)
                       => ~users'[u].exists]_vars

\* One uuid holds the record an offline event leaves when it finds none: the
\* name Unknown, offline, [MEMBER]; the other is online under its own name
\* with the one role GOLD that normalisation keeps of ["gold", "GOLD"].
C40_Witness ==
    /\ users["u1"] = [exists |-> TRUE, name |-> "Unknown", accountType |-> "LOCAL",
                      roles |-> <<DEFAULT_ROLE>>, online |-> FALSE]
    /\ users["u2"].exists /\ users["u2"].online /\ users["u2"].name = "Alice"
    /\ users["u2"].roles = <<"GOLD">>

====
